---- MODULE Spec2Model ----
(***************************************************************************)
(* Model of the Omnify TypeScript generator: the collision pre-pass and    *)
(* file planner of generateTypeScript, the plugin's routing of the file    *)
(* list to writer outputs, a writer that honours skipIfExists, the         *)
(* validator synthesis of the Zod generator, the interface generator with  *)
(* the payload shapes of an entity, and the enum generator.                *)
(*                                                                         *)
(* Text is a sequence of one-character strings, so that the string         *)
(* operations of the code (split, replace, concatenation, case mapping)    *)
(* are computed rather than assumed.                                       *)
(***************************************************************************)
EXTENDS Integers, Sequences, FiniteSets, TLC

VARIABLES
  schemas,      \* ctx.schemas of the current run: the SchemaCollection, in Object.values order
  pluginEnums,  \* ctx.pluginEnums of the current run: plugin enum definitions, in Map order
  opts,         \* the merged options of the current generateTypeScript call
  caller,       \* who called generateTypeScript: the plugin's generator or a direct caller
  pc,           \* position of the current run
  files,        \* the local `files` array of generateTypeScript
  result,       \* what generateTypeScript returned or threw
  outputs,      \* the GeneratorOutput list the plugin handed to the writer
  wi,           \* number of outputs the writer has applied
  disk,         \* the file system: path -> content
  writes,       \* path -> how many times the writer wrote it
  edited,       \* paths of model files the user has edited
  runs,         \* number of runs started
  firstResult,  \* input -> the first run on that input and what it returned or threw
  zprop,        \* validator synthesis: the property definition under synthesis
  zout,         \* validator synthesis: the synthesized ZodPropertySchema list
  zpc,          \* validator synthesis: position
  eschema,      \* base file of one entity: the schema
  eopts,        \* base file of one entity: the options (customTypes, generateZodSchemas)
  eiface,       \* base file of one entity: what schemaToInterface returned or threw
  esection,     \* base file of one entity: the create and update shapes of the file
  epc           \* base file of one entity: position

vars == <<schemas, pluginEnums, opts, caller, pc, files, result, outputs, wi, disk,
          writes, edited, runs, firstResult, zprop, zout, zpc,
          eschema, eopts, eiface, esection, epc>>

genVars == <<schemas, pluginEnums, opts, caller, pc, files, result, outputs, wi, disk,
             writes, edited, runs, firstResult>>

zodVars == <<zprop, zout, zpc>>

entVars == <<eschema, eopts, eiface, esection, epc>>

-----------------------------------------------------------------------------
(* Bounds *)

MaxSchemas == 4
MaxRuns == 2
MaxRunSchemas == 2

-----------------------------------------------------------------------------
(* Text helpers *)

Range(s) == {s[i] : i \in DOMAIN s}

LowerChars == <<"a","b","c","d","e","f","g","h","i","j","k","l","m",
                "n","o","p","q","r","s","t","u","v","w","x","y","z">>
UpperChars == <<"A","B","C","D","E","F","G","H","I","J","K","L","M",
                "N","O","P","Q","R","S","T","U","V","W","X","Y","Z">>
DigitChars == <<"0","1","2","3","4","5","6","7","8","9">>

IsLower(c) == c \in Range(LowerChars)
IsUpper(c) == c \in Range(UpperChars)
IsDigit(c) == c \in Range(DigitChars)
IsSeparator(c) == c \in {"-", "_", " "}

ToUpper(c) ==
  IF IsLower(c) THEN UpperChars[CHOOSE i \in DOMAIN LowerChars : LowerChars[i] = c] ELSE c
ToLower(c) ==
  IF IsUpper(c) THEN LowerChars[CHOOSE i \in DOMAIN UpperChars : UpperChars[i] = c] ELSE c

MapSeq(s, Op(_)) == [i \in DOMAIN s |-> Op(s[i])]

RECURSIVE Flatten(_)
Flatten(ss) == IF ss = <<>> THEN <<>> ELSE Head(ss) \o Flatten(Tail(ss))

RECURSIVE JoinWith(_, _)
JoinWith(ss, sep) ==
  IF ss = <<>> THEN <<>>
  ELSE IF Len(ss) = 1 THEN Head(ss)
  ELSE Head(ss) \o sep \o JoinWith(Tail(ss), sep)

\* word => word.charAt(0).toUpperCase() + word.slice(1).toLowerCase()
Capitalize(word) ==
  [i \in DOMAIN word |-> IF i = 1 THEN ToUpper(word[i]) ELSE ToLower(word[i])]

\* value.split(/[-_\s]+/): the pieces between maximal runs of separators
RECURSIVE SplitWords(_, _, _)
SplitWords(s, cur, prevSep) ==
  IF s = <<>> THEN <<cur>>
  ELSE IF IsSeparator(Head(s))
       THEN IF prevSep THEN SplitWords(Tail(s), cur, TRUE)
            ELSE <<cur>> \o SplitWords(Tail(s), <<>>, TRUE)
       ELSE SplitWords(Tail(s), Append(cur, Head(s)), FALSE)

\* value.replace(/([a-z])([A-Z])/g, "$1_$2")
RECURSIVE CamelToUnderscore(_)
CamelToUnderscore(s) ==
  IF Len(s) < 2 THEN s
  ELSE IF IsLower(s[1]) /\ IsUpper(s[2])
       THEN <<s[1], "_">> \o CamelToUnderscore(Tail(s))
       ELSE <<s[1]>> \o CamelToUnderscore(Tail(s))

toPascalCase(value) ==
  Flatten(MapSeq(SplitWords(CamelToUnderscore(value), <<>>, FALSE), Capitalize))

\* schemaName.charAt(0).toLowerCase() + schemaName.slice(1)
LowerFirst(s) == [i \in DOMAIN s |-> IF i = 1 THEN ToLower(s[i]) ELSE s[i]]

\* str.replace(/([A-Z])/g, "_$1").replace(/^_/, "").toLowerCase()
toSnakeCase(str) ==
  LET marked == Flatten(MapSeq(str, LAMBDA c : IF IsUpper(c) THEN <<"_", c>> ELSE <<c>>))
      trimmed == IF marked # <<>> /\ Head(marked) = "_" THEN Tail(marked) ELSE marked
  IN MapSeq(trimmed, ToLower)

-----------------------------------------------------------------------------
(* Literal text *)

tUser == <<"U","s","e","r">>
tPost == <<"P","o","s","t">>
tStatus == <<"S","t","a","t","u","s">>
tUserStatus == <<"U","s","e","r","S","t","a","t","u","s">>
tName == <<"n","a","m","e">>
tStatusProp == <<"s","t","a","t","u","s">>
tUserRoleProp == <<"u","s","e","r","_","r","o","l","e">>
tActive == <<"a","c","t","i","v","e">>
tInactive == <<"i","n","a","c","t","i","v","e">>
tDotTs == <<".","t","s">>
tDotJs == <<".","j","s">>
tBaseSlash == <<"b","a","s","e","/">>
tRulesSlash == <<"r","u","l","e","s","/">>
tDotRules == <<".","r","u","l","e","s">>
tCommonTs == <<"c","o","m","m","o","n",".","t","s">>
tI18nTs == <<"i","1","8","n",".","t","s">>
tIndexTs == <<"i","n","d","e","x",".","t","s">>
tDotBase == <<".","/","b","a","s","e">>
tOmnifyBaseSchemas == <<"@","o","m","n","i","f","y","-","b","a","s","e","/","s","c","h","e","m","a","s">>
tOmnifyBaseEnum == <<"@","o","m","n","i","f","y","-","b","a","s","e","/","e","n","u","m">>
tBaseSuffix == <<"B","a","s","e">>
tSlash == <<"/">>
tPackageJson == <<"p","a","c","k","a","g","e",".","j","s","o","n">>

\* absent optional value (undefined)
Undef == <<"undefined">>

-----------------------------------------------------------------------------
(* Ordering of text, as Array.prototype.sort() orders strings *)

CodeOrder == DigitChars \o UpperChars \o <<"_">> \o LowerChars

CharCode(c) ==
  IF c \in Range(CodeOrder) THEN CHOOSE i \in DOMAIN CodeOrder : CodeOrder[i] = c ELSE 0

RECURSIVE StrLess(_, _)
StrLess(a, b) ==
  IF b = <<>> THEN FALSE
  ELSE IF a = <<>> THEN TRUE
  ELSE IF CharCode(Head(a)) # CharCode(Head(b)) THEN CharCode(Head(a)) < CharCode(Head(b))
  ELSE StrLess(Tail(a), Tail(b))

\* Array.from(set).sort()
RECURSIVE SortStrs(_)
SortStrs(S) ==
  IF S = {} THEN <<>>
  ELSE LET m == CHOOSE x \in S : \A y \in S \ {x} : StrLess(x, y)
       IN <<m>> \o SortStrs(S \ {m})

StartsWithAt(s) == s # Undef /\ s # <<>> /\ Head(s) = "@"

-----------------------------------------------------------------------------
(* The input: schemas, plugin enums, options *)

EnumValue(v, labelled) == [value |-> v, labelled |-> labelled]

Prop(pname, type, enum, ref) == [pname |-> pname, type |-> type, enum |-> enum, ref |-> ref]

ObjectSchema(key, name, path, hidden, props) ==
  [key |-> key, name |-> name, kind |-> "object", path |-> path, hidden |-> hidden,
   hasValues |-> FALSE, values |-> <<>>, props |-> props]

EnumSchema(key, name, path, hasValues, values) ==
  [key |-> key, name |-> name, kind |-> "enum", path |-> path, hidden |-> FALSE,
   hasValues |-> hasValues, values |-> values, props |-> <<>>]

PlainValues == <<EnumValue(tActive, FALSE), EnumValue(tInactive, FALSE)>>
LabelledValues == <<EnumValue(tActive, TRUE), EnumValue(tInactive, FALSE)>>

\* entity User: a string, an inline enum without labels, a reference to enum Status,
\* an association to entity Post
cUser ==
  ObjectSchema(tUser, tUser, <<"user.yaml">>, FALSE,
    <<Prop(tName, "String", <<>>, <<>>),
      Prop(tStatusProp, "Enum", PlainValues, <<>>),
      Prop(tUserRoleProp, "EnumRef", <<>>, tStatus),
      Prop(<<"p", "o", "s", "t">>, "Association", <<>>, tPost)>>)
\* a second schema named User, loaded from another file under another key
cUserDup ==
  ObjectSchema(tUser \o <<"2">>, tUser, <<"shop/user.yaml">>, FALSE,
    <<Prop(tUserRoleProp, "Select", LabelledValues, <<>>)>>)
\* a hidden entity with a labelled inline enum
cPost ==
  ObjectSchema(tPost, tPost, <<"post.yaml">>, TRUE,
    <<Prop(tStatusProp, "Enum", LabelledValues, <<>>)>>)
cStatus == EnumSchema(tStatus, tStatus, <<"status.yaml">>, TRUE, LabelledValues)
\* a second enum named Status
cStatusDup ==
  EnumSchema(tStatus \o <<"2">>, tStatus, <<"shop/status.yaml">>, TRUE, PlainValues)
\* an enum whose name is the name extracted for User.status
cUserStatus == EnumSchema(tUserStatus, tUserStatus, <<"user-status.yaml">>, TRUE, PlainValues)

Catalog == {cUser, cUserDup, cPost, cStatus, cStatusDup, cUserStatus}
RunCatalog == {cUser, cPost, cStatus}

\* all collections of at most n schemas of C under pairwise distinct keys
RECURSIVE Collections(_, _)
Collections(C, n) ==
  IF n = 0 THEN {<<>>}
  ELSE LET shorter == Collections(C, n - 1)
       IN shorter \cup
          {Append(c, s) : c \in {x \in shorter : Len(x) = n - 1},
                          s \in C} 

DistinctKeys(c) == \A i, j \in DOMAIN c : i # j => c[i].key # c[j].key

PluginEnum(name, values) == [name |-> name, values |-> values]

PluginEnumSets ==
  {<<>>, <<PluginEnum(tStatus, PlainValues)>>,
   <<PluginEnum(tUserStatus, LabelledValues), PluginEnum(tUser, PlainValues)>>}

DEFAULT_OPTIONS ==
  [generateZodSchemas |-> TRUE, generateRules |-> FALSE, useJsExtension |-> FALSE,
   baseImportPrefix |-> Undef, enumImportPrefix |-> Undef, pluginEnumImportPrefix |-> Undef]

\* the options the plugin passes to generateTypeScript
PluginOptions(zod) ==
  [DEFAULT_OPTIONS EXCEPT !.generateZodSchemas = zod,
                          !.baseImportPrefix = tOmnifyBaseSchemas,
                          !.enumImportPrefix = tOmnifyBaseEnum,
                          !.pluginEnumImportPrefix = tOmnifyBaseEnum]

\* options of direct callers of generateTypeScript
ApiOptions ==
  {DEFAULT_OPTIONS,
   [DEFAULT_OPTIONS EXCEPT !.generateZodSchemas = FALSE, !.generateRules = TRUE],
   [DEFAULT_OPTIONS EXCEPT !.generateZodSchemas = FALSE, !.useJsExtension = TRUE]}

OptionSets == ApiOptions \cup {PluginOptions(z) : z \in BOOLEAN}

getImportExt(o) == IF o.useJsExtension THEN tDotJs ELSE <<>>

-----------------------------------------------------------------------------
(* Enum generator *)

IsAlnum(c) == IsLower(c) \/ IsUpper(c) \/ IsDigit(c)

toEnumMemberName(value) ==
  LET joined == Flatten(MapSeq(SplitWords(value, <<>>, FALSE), Capitalize))
      stripped == SelectSeq(joined, IsAlnum)
  IN IF stripped # <<>> /\ IsDigit(Head(stripped)) THEN <<"_">> \o stripped ELSE stripped

toEnumName(schemaName) == schemaName

parseEnumValue(v) ==
  [name |-> toEnumMemberName(v.value), value |-> v.value, labelled |-> v.labelled]

TSEnum(name, values) == [name |-> name, values |-> values]

schemaToEnum(schema) == TSEnum(toEnumName(schema.name), MapSeq(schema.values, parseEnumValue))

generateEnums(ss) ==
  MapSeq(SelectSeq(ss, LAMBDA s : s.kind = "enum" /\ s.hasValues), schemaToEnum)

pluginEnumToTSEnum(enumDef) == TSEnum(enumDef.name, MapSeq(enumDef.values, parseEnumValue))

generatePluginEnums(pes) == MapSeq(pes, pluginEnumToTSEnum)

Quoted(v) == <<"'">> \o v \o <<"'">>

\* values.map(v => `'${v}'`).join(" | ")
UnionOfLiterals(values) ==
  JoinWith(MapSeq(values, LAMBDA v : Quoted(v.value)), <<" ", "|", " ">>)

\* one extracted inline enum: a full enum (tag "enum") or a type alias (tag "typeAlias")
InlineOfProp(schema, p) ==
  IF p.type \in {"Enum", "Select"} /\ Len(p.enum) > 0
  THEN LET typeName == schema.name \o toPascalCase(p.pname)
           hasLabels == \E i \in DOMAIN p.enum : p.enum[i].labelled
       IN IF hasLabels
          THEN <<[tag |-> "enum", name |-> typeName,
                  values |-> MapSeq(p.enum, parseEnumValue), type |-> <<>>]>>
          ELSE <<[tag |-> "typeAlias", name |-> typeName,
                  values |-> <<>>, type |-> UnionOfLiterals(p.enum)]>>
  ELSE <<>>

InlineOfSchema(schema) ==
  IF schema.kind = "enum" THEN <<>>
  ELSE Flatten(MapSeq(schema.props, LAMBDA p : InlineOfProp(schema, p)))

extractInlineEnums(ss) == Flatten(MapSeq(ss, InlineOfSchema))

\* the lines of the rendered enum: its name, then one line per member
formatEnum(enumDef) ==
  <<enumDef.name>> \o
  MapSeq(enumDef.values,
         LAMBDA m : m.name \o <<" ", "=", " ">> \o Quoted(m.value)
                    \o (IF m.labelled THEN <<" ", "/", "/", "l", "a", "b", "e", "l">> ELSE <<>>))

formatTypeAlias(alias) == <<alias.name, alias.type>>

-----------------------------------------------------------------------------
(* File planner *)

\* a header that says how many times the project was generated
generateBaseHeaderStamped ==
  IF runs > 1 THEN "DO NOT EDIT THIS FILE (regenerated)" ELSE "DO NOT EDIT THIS FILE"

generateBaseHeader == "DO NOT EDIT THIS FILE"

generateModelHeader == "This file will NOT be overwritten by the generator"

Content(header, imports, extends, body) ==
  [header |-> header, imports |-> imports, extends |-> extends, body |-> body]

GeneratedFile(filePath, content, types, overwrite, category) ==
  [filePath |-> filePath, content |-> content, types |-> types,
   overwrite |-> overwrite, category |-> category]

generateEnumFile(enumDef, isPluginEnum) ==
  GeneratedFile(enumDef.name \o tDotTs,
                Content(generateBaseHeader, <<>>, <<>>, formatEnum(enumDef)),
                <<enumDef.name>>, TRUE,
                IF isPluginEnum THEN "plugin-enum" ELSE "enum")

\* a type alias file that is created once, like a model file
generateTypeAliasFileKept(alias) ==
  GeneratedFile(alias.name \o tDotTs,
                Content(generateBaseHeader, <<>>, <<>>, formatTypeAlias(alias)),
                <<alias.name>>, FALSE, "enum")

generateTypeAliasFile(alias) ==
  GeneratedFile(alias.name \o tDotTs,
                Content(generateBaseHeader, <<>>, <<>>, formatTypeAlias(alias)),
                <<alias.name>>, TRUE, "enum")

\* a filter that forgets the hidden option
IsAnyObject(s) == s.kind # "enum"

IsVisibleObject(s) == s.kind # "enum" /\ ~s.hidden

\* generateInterfaces: one interface per visible object schema
generateInterfaces(ss) == SelectSeq(ss, IsVisibleObject)

HasKey(ss, k) == \E i \in DOMAIN ss : ss[i].key = k

\* schemas[schemaName]
SchemaAt(ss, k) == ss[CHOOSE i \in DOMAIN ss : ss[i].key = k]

HasInterface(ss, n) == \E i \in DOMAIN ss : IsVisibleObject(ss[i]) /\ ss[i].name = n

\* interfaces.find(i => i.name === schemaName)
InterfaceOf(ss, n) ==
  LET ifs == generateInterfaces(ss)
  IN ifs[CHOOSE i \in DOMAIN ifs : ifs[i].name = n /\ \A j \in 1..(i - 1) : ifs[j].name # n]

\* iface.enumDependencies: the sorted names of the enums its EnumRef properties refer to
enumDependencies(schema) ==
  SortStrs({schema.props[i].ref : i \in {j \in DOMAIN schema.props :
               schema.props[j].type = "EnumRef" /\ schema.props[j].ref # <<>>}})

\* iface.dependencies: the sorted names of the other non-enum schemas of the collection
\* that the types of its association fields refer to
dependencies(schema, ss) ==
  SortStrs({schema.props[i].ref : i \in {j \in DOMAIN schema.props :
               /\ schema.props[j].type = "Association"
               /\ schema.props[j].ref # schema.name
               /\ \E k \in DOMAIN ss : ss[k].kind # "enum"
                                       /\ ss[k].name = schema.props[j].ref}})

\* the import lines a base file writes for its dependencies
baseEntityImports(schema, ss, o) ==
  MapSeq(dependencies(schema, ss), LAMBDA d : <<".", "/">> \o d \o getImportExt(o))

schemaEnumPrefix(o) ==
  IF o.enumImportPrefix = Undef THEN <<".", ".", "/", "e", "n", "u", "m">>
  ELSE IF StartsWithAt(o.enumImportPrefix) THEN o.enumImportPrefix
  ELSE <<".", ".", "/">> \o o.enumImportPrefix

pluginEnumPrefixOfBase(o) ==
  IF o.pluginEnumImportPrefix # Undef THEN o.pluginEnumImportPrefix
  ELSE schemaEnumPrefix(o) \o <<"/", "p", "l", "u", "g", "i", "n">>

\* import lines that take every enum from the schema-enum prefix
baseEnumImportsSchemaOnly(schema, pes, o) ==
  MapSeq(enumDependencies(schema),
         LAMBDA e : schemaEnumPrefix(o) \o tSlash \o e \o getImportExt(o))

\* the import lines a base file writes for its enum dependencies
baseEnumImports(schema, pes, o) ==
  MapSeq(enumDependencies(schema),
         LAMBDA e : IF \E i \in DOMAIN pes : pes[i].name = e
                    THEN pluginEnumPrefixOfBase(o) \o tSlash \o e \o getImportExt(o)
                    ELSE schemaEnumPrefix(o) \o tSlash \o e \o getImportExt(o))

BaseFileThrows(ss, schemaName) == ~HasInterface(ss, schemaName) \/ ~HasKey(ss, schemaName)

generateBaseInterfaceFile(schemaName, ss, pes, o) ==
  LET iface == InterfaceOf(ss, schemaName)
      schema == SchemaAt(ss, schemaName)
  IN GeneratedFile(tBaseSlash \o schemaName \o tDotTs,
       Content(generateBaseHeader,
               (IF o.generateZodSchemas THEN <<<<"z", "o", "d">>>> ELSE <<>>)
                 \o baseEnumImports(iface, pes, o)
                 \o baseEntityImports(iface, ss, o),
               <<>>,
               <<iface.name,
                 IF o.generateZodSchemas THEN <<"z", "o", "d", ":">> \o schema.name
                 ELSE <<"u", "t", "i", "l", "i", "t", "y", ":">> \o schema.name>>),
       <<schemaName, schemaName \o <<"C","r","e","a","t","e">>,
         schemaName \o <<"U","p","d","a","t","e">>>>,
       TRUE, "base")

basePrefixOf(o) == IF o.baseImportPrefix = Undef THEN tDotBase ELSE o.baseImportPrefix

generateModelFile(schemaName, o) ==
  GeneratedFile(schemaName \o tDotTs,
       Content(generateModelHeader,
               <<basePrefixOf(o) \o tSlash \o schemaName \o getImportExt(o)>>,
               schemaName \o tBaseSuffix,
               <<schemaName, IF o.generateZodSchemas THEN <<"z", "o", "d">> ELSE <<>>>>),
       <<schemaName>>, FALSE, "none")

generateRulesFiles(ss, o) ==
  MapSeq(SelectSeq(ss, IsVisibleObject),
         LAMBDA s : GeneratedFile(tRulesSlash \o s.name \o tDotRules \o tDotTs,
                       Content("rules", <<>>, <<>>, <<s.name>>),
                       <<s.name \o <<"R","u","l","e","s">>>>, TRUE, "none"))

generateCommonFile(o) ==
  GeneratedFile(tCommonTs, Content(generateBaseHeader, <<>>, <<>>, <<<<"j", "a">>, <<"e", "n">>>>),
                <<>>, TRUE, IF StartsWithAt(o.baseImportPrefix) THEN "base" ELSE "none")

generateI18nFile(o) ==
  GeneratedFile(tI18nTs,
                Content(generateBaseHeader,
                        <<(IF StartsWithAt(o.baseImportPrefix)
                           THEN o.baseImportPrefix \o <<"/", "c", "o", "m", "m", "o", "n">>
                           ELSE <<".", "/", "c", "o", "m", "m", "o", "n">>) \o getImportExt(o)>>,
                        <<>>, <<<<"j", "a">>, <<"e", "n">>>>),
                <<>>, TRUE, "none")

indexEnumPrefix(o) ==
  IF o.enumImportPrefix = Undef THEN <<".", "/", "e", "n", "u", "m">> ELSE o.enumImportPrefix

indexPluginEnumPrefix(o) ==
  IF o.pluginEnumImportPrefix # Undef THEN o.pluginEnumImportPrefix
  ELSE indexEnumPrefix(o) \o <<"/", "p", "l", "u", "g", "i", "n">>

\* the module paths index.ts re-exports from, in the order it writes them
generateIndexFile(ss, enums, pes, typeAliases, o) ==
  LET ext == getImportExt(o)
      node == StartsWithAt(o.baseImportPrefix)
      commonPath == (IF node THEN o.baseImportPrefix \o <<"/", "c", "o", "m", "m", "o", "n">>
                     ELSE <<".", "/", "c", "o", "m", "m", "o", "n">>) \o ext
      i18nPath == (IF node THEN o.baseImportPrefix \o <<"/", "i", "1", "8", "n">>
                   ELSE <<".", "/", "i", "1", "8", "n">>) \o ext
      visible == SelectSeq(ss, IsVisibleObject)
      modelPath(s) == <<".", "/">> \o s.name \o ext
      models ==
        IF o.generateZodSchemas
        THEN Flatten(MapSeq(visible, LAMBDA s : <<modelPath(s), modelPath(s)>>))
        ELSE Flatten(MapSeq(visible,
               LAMBDA s : <<modelPath(s), basePrefixOf(o) \o tSlash \o s.name \o ext>>))
             \o (IF o.generateRules
                 THEN MapSeq(visible, LAMBDA s : <<".", "/">> \o tRulesSlash \o s.name
                                                  \o tDotRules \o ext)
                 ELSE <<>>)
  IN GeneratedFile(tIndexTs,
       Content(generateBaseHeader,
               <<commonPath, i18nPath>>
                 \o MapSeq(enums, LAMBDA e : indexEnumPrefix(o) \o tSlash \o e.name \o ext)
                 \o MapSeq(pes, LAMBDA e : indexPluginEnumPrefix(o) \o tSlash \o e.name \o ext)
                 \o MapSeq(typeAliases, LAMBDA a : indexEnumPrefix(o) \o tSlash \o a.name \o ext)
                 \o models,
               <<>>, <<>>),
       <<>>, TRUE, "none")

-----------------------------------------------------------------------------
(* The collision pre-pass of generateTypeScript *)

\* schemasByName.get(name): the sources of every schema of that name, in order
SourcesOf(ss, n) ==
  LET same == SelectSeq(ss, LAMBDA s : s.name = n)
  IN [i \in DOMAIN same |-> same[i].path]

Collision(name, sources) == [name |-> name, sources |-> sources]

\* Array.from(schemasByName.entries()).filter(([, paths]) => paths.length > 1)
RECURSIVE DuplicatesFrom(_, _)
DuplicatesFrom(ss, i) ==
  IF i > Len(ss) THEN <<>>
  ELSE (IF (\A j \in 1..(i - 1) : ss[j].name # ss[i].name)
           /\ Len(SourcesOf(ss, ss[i].name)) > 1
        THEN <<Collision(ss[i].name, SourcesOf(ss, ss[i].name))>>
        ELSE <<>>) \o DuplicatesFrom(ss, i + 1)

\* a filter that stops at the first duplicated name
duplicateSchemasFirstOnly(ss) ==
  IF DuplicatesFrom(ss, 1) = <<>> THEN <<>> ELSE <<DuplicatesFrom(ss, 1)[1]>>

duplicateSchemas(ss) == DuplicatesFrom(ss, 1)

\* the `conflicts` array: schema enums whose name a plugin enum has
conflicts(ss, pes) ==
  LET hit == SelectSeq(ss, LAMBDA s : s.kind = "enum"
                                      /\ \E i \in DOMAIN pes : pes[i].name = s.name)
  IN [i \in DOMAIN hit |-> Collision(hit[i].name, <<hit[i].path>>)]

NoResult == [kind |-> "none", class |-> "none", entries |-> <<>>, files |-> <<>>]
Thrown(class, entries) == [kind |-> "error", class |-> class, entries |-> entries, files |-> <<>>]
Returned(fs) == [kind |-> "ok", class |-> "none", entries |-> <<>>, files |-> fs]

\* what the pre-pass throws, or NoResult when it lets the run go on
PrePass(ss, pes) ==
  IF Len(duplicateSchemas(ss)) > 0 THEN Thrown("DuplicateNames", duplicateSchemas(ss))
  ELSE IF Len(pes) > 0 /\ Len(conflicts(ss, pes)) > 0
       THEN Thrown("PluginEnumConflict", conflicts(ss, pes))
       ELSE NoResult

-----------------------------------------------------------------------------
(* The planning phases of generateTypeScript *)

EnumPhaseFiles(ss, pes) ==
  MapSeq(generateEnums(ss), LAMBDA e : generateEnumFile(e, FALSE))
  \o MapSeq(generatePluginEnums(pes), LAMBDA e : generateEnumFile(e, TRUE))
  \o MapSeq(extractInlineEnums(ss),
            LAMBDA it : IF it.tag = "enum"
                        THEN generateEnumFile(TSEnum(it.name, it.values), FALSE)
                        ELSE generateTypeAliasFile(it))

\* `enums` after the inline full enums were pushed onto it
AllEnums(ss) ==
  generateEnums(ss)
  \o MapSeq(SelectSeq(extractInlineEnums(ss), LAMBDA it : it.tag = "enum"),
            LAMBDA it : TSEnum(it.name, it.values))

inlineTypeAliases(ss) == SelectSeq(extractInlineEnums(ss), LAMBDA it : it.tag = "typeAlias")

\* index of the first visible object schema whose base file cannot be generated, or 0
FirstThrowing(ss) ==
  LET bad == {i \in DOMAIN ss : IsVisibleObject(ss[i]) /\ BaseFileThrows(ss, ss[i].name)}
  IN IF bad = {} THEN 0 ELSE CHOOSE i \in bad : \A j \in bad : i <= j

BasePhaseFiles(ss, pes, o, upto) ==
  MapSeq(SelectSeq(SubSeq(ss, 1, upto), IsVisibleObject),
         LAMBDA s : generateBaseInterfaceFile(s.name, ss, pes, o))

ModelPhaseFiles(ss, o) ==
  MapSeq(SelectSeq(ss, IsVisibleObject), LAMBDA s : generateModelFile(s.name, o))
  \o (IF ~o.generateZodSchemas /\ o.generateRules THEN generateRulesFiles(ss, o) ELSE <<>>)

SupportPhaseFiles(ss, pes, o) ==
  <<generateCommonFile(o), generateI18nFile(o),
    generateIndexFile(ss, AllEnums(ss), generatePluginEnums(pes), inlineTypeAliases(ss), o)>>

-----------------------------------------------------------------------------
(* The plugin's generator: routing of the file list to writer outputs *)

omnifyBaseDir == <<"node_modules/@omnify-base">>
modelsPath == <<"resources/ts/omnify">>

HasPrefix(s, pre) == Len(s) >= Len(pre) /\ SubSeq(s, 1, Len(pre)) = pre

\* file.filePath.replace(/^base\//, '')
StripBase(filePath) ==
  IF HasPrefix(filePath, tBaseSlash) THEN SubSeq(filePath, Len(tBaseSlash) + 1, Len(filePath))
  ELSE filePath

outputPath(file) ==
  IF file.category \in {"plugin-enum", "enum"}
  THEN omnifyBaseDir \o <<"/enum/">> \o file.filePath
  ELSE IF file.category = "base"
  THEN omnifyBaseDir \o <<"/schemas/">> \o StripBase(file.filePath)
  ELSE IF file.overwrite /\ file.filePath \in {tCommonTs, tI18nTs}
  THEN omnifyBaseDir \o <<"/schemas/">> \o file.filePath
  ELSE modelsPath \o <<"/">> \o file.filePath

GeneratorOutput(path, content, skipIfExists) ==
  [path |-> path, content |-> content, skipIfExists |-> skipIfExists]

\* a routing that copies the overwrite flag into skipIfExists instead of inverting it
routeFileNotInverted(file) == GeneratorOutput(outputPath(file), file.content, file.overwrite)

routeFile(file) == GeneratorOutput(outputPath(file), file.content, ~file.overwrite)

packageJson ==
  GeneratorOutput(omnifyBaseDir \o <<"/">> \o tPackageJson,
                  Content("package", <<>>, <<>>, <<>>), FALSE)

\* the outputs array the generate callback resolves to
pluginOutputs(fs) ==
  (IF \E i \in DOMAIN fs : fs[i].category \in {"enum", "plugin-enum", "base"}
   THEN <<packageJson>> ELSE <<>>)
  \o MapSeq(fs, routeFile)

-----------------------------------------------------------------------------
(* State machine *)

Input == <<schemas, pluginEnums, opts>>

UserContent == Content("edited by the user", <<>>, <<>>, <<>>)

WideInputs ==
  {<<c, pe, o>> : c \in {x \in Collections(Catalog, MaxSchemas) : DistinctKeys(x)},
                  pe \in PluginEnumSets, o \in OptionSets}

NarrowInputs ==
  {<<c, pe, o>> : c \in {x \in Collections(RunCatalog, MaxRunSchemas) : DistinctKeys(x)},
                  pe \in {<<>>, <<PluginEnum(tStatus, PlainValues)>>},
                  o \in {PluginOptions(z) : z \in BOOLEAN}}

CallerOf(o) == IF StartsWithAt(o.baseImportPrefix) THEN "plugin" ELSE "api"

GenInit ==
  /\ schemas = <<>>
  /\ pluginEnums = <<>>
  /\ opts = DEFAULT_OPTIONS
  /\ caller = "api"
  /\ pc = "idle"
  /\ files = <<>>
  /\ result = NoResult
  /\ outputs = <<>>
  /\ wi = 0
  /\ disk = <<>>
  /\ writes = <<>>
  /\ edited = {}
  /\ runs = 0
  /\ firstResult = <<>>

ZodIdle ==
  /\ zprop = <<>>
  /\ zout = <<>>
  /\ zpc = "idle"

EntityIdle ==
  /\ eschema = <<>>
  /\ eopts = <<>>
  /\ eiface = <<>>
  /\ esection = <<>>
  /\ epc = "idle"

Init == GenInit /\ ZodIdle /\ EntityIdle

\* a run starts: the CLI hands the plugin's generator its context, or a caller
\* calls generateTypeScript directly
StartRun(inputs, maxRuns) ==
  /\ pc = "idle"
  /\ runs < maxRuns
  /\ \E in \in inputs :
       /\ schemas' = in[1]
       /\ pluginEnums' = in[2]
       /\ opts' = in[3]
       /\ caller' = CallerOf(in[3])
  /\ pc' = "prepass"
  /\ files' = <<>>
  /\ result' = NoResult
  /\ outputs' = <<>>
  /\ wi' = 0
  /\ runs' = runs + 1
  /\ UNCHANGED <<disk, writes, edited, firstResult, zodVars, entVars>>

Remember(r) ==
  IF Input \in DOMAIN firstResult THEN firstResult
  ELSE [i \in DOMAIN firstResult \cup {Input} |->
          IF i = Input THEN [run |-> runs, result |-> r] ELSE firstResult[i]]

\* a pre-pass that runs after the enum files were planned
CollisionPrePassLate ==
  /\ pc = "prepass"
  /\ files' = EnumPhaseFiles(schemas, pluginEnums)
  /\ LET thrown == PrePass(schemas, pluginEnums)
     IN IF thrown.kind = "error"
        THEN /\ result' = thrown
             /\ firstResult' = Remember(thrown)
             /\ pc' = "failed"
        ELSE /\ pc' = "planBase"
             /\ UNCHANGED <<result, firstResult>>
  /\ UNCHANGED <<schemas, pluginEnums, opts, caller, outputs, wi, disk, writes,
                 edited, runs, zodVars, entVars>>

\* generateTypeScript, the duplicate-name and plugin-enum checks
CollisionPrePass ==
  /\ pc = "prepass"
  /\ LET thrown == PrePass(schemas, pluginEnums)
     IN IF thrown.kind = "error"
        THEN /\ result' = thrown
             /\ firstResult' = Remember(thrown)
             /\ pc' = "failed"
        ELSE /\ pc' = "planEnums"
             /\ UNCHANGED <<result, firstResult>>
  /\ UNCHANGED <<schemas, pluginEnums, opts, caller, files, outputs, wi, disk, writes,
                 edited, runs, zodVars, entVars>>

\* generateTypeScript, the enum, plugin-enum and inline-enum files
PlanEnums ==
  /\ pc = "planEnums"
  /\ files' = files \o EnumPhaseFiles(schemas, pluginEnums)
  /\ pc' = "planBase"
  /\ UNCHANGED <<schemas, pluginEnums, opts, caller, result, outputs, wi, disk, writes,
                 edited, runs, firstResult, zodVars, entVars>>

\* generateTypeScript, the base files; generateBaseInterfaceFile may throw
PlanBase ==
  /\ pc = "planBase"
  /\ LET bad == FirstThrowing(schemas)
     IN IF bad # 0
        THEN /\ files' = files \o BasePhaseFiles(schemas, pluginEnums, opts, bad - 1)
             /\ result' = Thrown("InterfaceNotFound",
                                 <<Collision(schemas[bad].name, <<>>)>>)
             /\ firstResult' = Remember(result')
             /\ pc' = "failed"
        ELSE /\ files' = files \o BasePhaseFiles(schemas, pluginEnums, opts, Len(schemas))
             /\ pc' = "planModels"
             /\ UNCHANGED <<result, firstResult>>
  /\ UNCHANGED <<schemas, pluginEnums, opts, caller, outputs, wi, disk, writes,
                 edited, runs, zodVars, entVars>>

\* generateTypeScript, the model files and the legacy rules files
PlanModels ==
  /\ pc = "planModels"
  /\ files' = files \o ModelPhaseFiles(schemas, opts)
  /\ pc' = "planSupport"
  /\ UNCHANGED <<schemas, pluginEnums, opts, caller, result, outputs, wi, disk, writes,
                 edited, runs, firstResult, zodVars, entVars>>

\* generateTypeScript, common.ts, i18n.ts, index.ts and the return
PlanSupport ==
  /\ pc = "planSupport"
  /\ files' = files \o SupportPhaseFiles(schemas, pluginEnums, opts)
  /\ result' = Returned(files')
  /\ firstResult' = Remember(result')
  /\ pc' = "returned"
  /\ UNCHANGED <<schemas, pluginEnums, opts, caller, outputs, wi, disk, writes,
                 edited, runs, zodVars, entVars>>

\* the plugin's generate callback turns the returned files into outputs
PluginGenerate ==
  /\ pc = "returned"
  /\ caller = "plugin"
  /\ outputs' = pluginOutputs(result.files)
  /\ wi' = 0
  /\ pc' = "writing"
  /\ UNCHANGED <<schemas, pluginEnums, opts, caller, files, result, disk, writes,
                 edited, runs, firstResult, zodVars, entVars>>

Put(f, k, v) == [x \in DOMAIN f \cup {k} |-> IF x = k THEN v ELSE f[x]]

\* the writer applies the next output: it skips an existing file when skipIfExists
WriterApply ==
  /\ pc = "writing"
  /\ wi < Len(outputs)
  /\ LET out == outputs[wi + 1]
     IN IF out.skipIfExists /\ out.path \in DOMAIN disk
        THEN UNCHANGED <<disk, writes>>
        ELSE /\ disk' = Put(disk, out.path, out.content)
             /\ writes' = Put(writes, out.path,
                              IF out.path \in DOMAIN writes THEN writes[out.path] + 1 ELSE 1)
  /\ wi' = wi + 1
  /\ UNCHANGED <<schemas, pluginEnums, opts, caller, pc, files, result, outputs,
                 edited, runs, firstResult, zodVars, entVars>>

\* the run is over: the call threw, a direct caller got its list, or the writer is done
FinishRun ==
  /\ pc \in {"failed", "returned", "writing"}
  /\ pc = "returned" => caller = "api"
  /\ pc = "writing" => wi = Len(outputs)
  /\ pc' = "idle"
  /\ UNCHANGED <<schemas, pluginEnums, opts, caller, files, result, outputs, wi, disk,
                 writes, edited, runs, firstResult, zodVars, entVars>>

ModelPaths == {modelsPath \o <<"/">> \o s.name \o tDotTs : s \in {c \in Catalog : c.kind = "object"}}

\* between runs the user edits a model file
UserEdit ==
  /\ pc = "idle"
  /\ \E p \in (DOMAIN disk \cap ModelPaths) \ edited :
       /\ disk' = [disk EXCEPT ![p] = UserContent]
       /\ edited' = edited \cup {p}
  /\ UNCHANGED <<schemas, pluginEnums, opts, caller, pc, files, result, outputs, wi,
                 writes, runs, firstResult, zodVars, entVars>>

RunSteps ==
  \/ CollisionPrePass
  \/ PlanEnums
  \/ PlanBase
  \/ PlanModels
  \/ PlanSupport
  \/ PluginGenerate
  \/ WriterApply
  \/ FinishRun
  \/ UserEdit

\* one call of the generator on any input
Next == StartRun(WideInputs, 1) \/ RunSteps

Spec == Init /\ [][Next]_vars

\* successive runs of the plugin on the same project
NextRuns == StartRun(NarrowInputs, MaxRuns) \/ RunSteps

SpecRuns == Init /\ [][NextRuns]_vars

-----------------------------------------------------------------------------
(* One call of the generator on one enum with arbitrary raw values *)

MaxRawLen == 2

RawAlphabet == {"a", "B", "1", "_", "-", "!"}

\* the raw values of one to MaxRawLen characters
RawValues == UNION {[1..n -> RawAlphabet] : n \in 1..MaxRawLen}

\* the value lists of one enum: one value, or two different values; the first value
\* carries a label when asked to
RawValueLists(labelled) ==
  {<<EnumValue(r, labelled)>> : r \in RawValues}
  \cup {<<EnumValue(pair[1], labelled), EnumValue(pair[2], FALSE)>> :
          pair \in {rq \in RawValues \X RawValues : rq[1] # rq[2]}}

tUserRoleCamel == <<"u", "s", "e", "r", "R", "o", "l", "e">>

\* properties of an entity: Enum and Select properties with a plain, a labelled or an
\* empty value list, and a String property
InlineProps ==
  {Prop(n, t, vs, <<>>) :
     n \in {tStatusProp, tUserRoleProp, tUserRoleCamel},
     t \in {"Enum", "Select", "String"},
     vs \in {PlainValues, LabelledValues, <<>>}}

\* one property, or two properties of different names
InlinePropLists ==
  {<<p>> : p \in InlineProps}
  \cup {<<pq[1], pq[2]>> : pq \in {x \in InlineProps \X InlineProps : x[1].pname # x[2].pname}}

\* the enum is a schema enum, a plugin enum, or a labelled inline enum of an entity; or
\* the input is one entity, hidden or not, with inline enums
EnumInputs ==
  {<<<<ObjectSchema(tUser, tUser, <<"user.yaml">>, h, ps)>>, <<>>, DEFAULT_OPTIONS>> :
     h \in BOOLEAN, ps \in InlinePropLists}
  \cup
  {<<<<EnumSchema(tStatus, tStatus, <<"status.yaml">>, TRUE, vs)>>, <<>>, DEFAULT_OPTIONS>> :
     vs \in RawValueLists(FALSE)}
  \cup {<<<<>>, <<PluginEnum(tStatus, vs)>>, DEFAULT_OPTIONS>> : vs \in RawValueLists(FALSE)}
  \cup {<<<<ObjectSchema(tUser, tUser, <<"user.yaml">>, FALSE,
                         <<Prop(tStatusProp, "Enum", vs, <<>>)>>)>>, <<>>, DEFAULT_OPTIONS>> :
          vs \in RawValueLists(TRUE)}

NextEnums ==
  \/ StartRun(EnumInputs, 1)
  \/ CollisionPrePass
  \/ PlanEnums
  \/ PlanBase
  \/ PlanModels
  \/ PlanSupport
  \/ FinishRun

SpecEnums == Init /\ [][NextEnums]_vars

-----------------------------------------------------------------------------
(* Zod generator: validator synthesis for one property *)

MaxRuleArg == 2

\* an optional value is <<>> when undefined and <<v>> when defined
None == <<>>
Some(v) == <<v>>
Defined(opt) == opt # <<>>
\* JavaScript truthiness of an optional number
Truthy(opt) == opt # <<>> /\ opt[1] # 0

\* `${n}` for a number
RECURSIVE NumText(_)
NumText(n) ==
  IF n < 10 THEN <<DigitChars[n + 1]>>
  ELSE NumText(n \div 10) \o <<DigitChars[(n % 10) + 1]>>

\* s.replace(pat, rep): the first occurrence only
RECURSIVE ReplaceFirst(_, _, _)
ReplaceFirst(s, pat, rep) ==
  IF Len(s) < Len(pat) THEN s
  ELSE IF SubSeq(s, 1, Len(pat)) = pat THEN rep \o SubSeq(s, Len(pat) + 1, Len(s))
  ELSE <<Head(s)>> \o ReplaceFirst(Tail(s), pat, rep)

RegexSpecial == {".", "*", "+", "?", "^", "$", "{", "}", "(", ")", "|", "[", "]", "\\"}

\* p.replace(/[.*+?^${}()|[\]\\]/g, '\\$&')
EscapeRegex(p) ==
  Flatten(MapSeq(p, LAMBDA c : IF c \in RegexSpecial THEN <<"\\", c>> ELSE <<c>>))

Call(name, arg) == <<name, "(">> \o arg \o <<")">>

FormatNames == <<"url", "uuid", "ip", "ipv4", "ipv6">>

\* the validator a format rule puts in place of the base validator
FormatSchema(f) ==
  IF f = "url" THEN <<"z.string()", ".url()">>
  ELSE IF f = "uuid" THEN <<"z.string()", ".uuid()">>
  ELSE IF f = "ip" THEN <<"z.string()", ".ip()">>
  ELSE IF f = "ipv4" THEN <<"z.string()", ".ip({ version: \"v4\" })">>
  ELSE <<"z.string()", ".ip({ version: \"v6\" })">>

StringTypes == {"String", "Text", "MediumText", "LongText", "Password", "Email"}
\* numeric rules applied to plain strings as well
NumericTypesWide == {"Int", "TinyInt", "BigInt", "Float", "String"}
NumericTypes == {"Int", "TinyInt", "BigInt", "Float"}

\* the entries of a startsWith/endsWith rule, empty ones included
ValidEntriesUnfiltered(rule) ==
  IF rule.kind = "absent" THEN <<>>
  ELSE IF rule.kind = "string" THEN <<rule.items[1]>>
  ELSE rule.items

\* validPrefixes: the entries of a startsWith/endsWith rule that are not empty
ValidEntries(rule) ==
  IF rule.kind = "absent" THEN <<>>
  ELSE IF rule.kind = "string" THEN SelectSeq(<<rule.items[1]>>, LAMBDA x : Len(x) > 0)
  ELSE SelectSeq(rule.items, LAMBDA x : Len(x) > 0)

\* if (rules.startsWith): a non-empty string or any array
RuleGiven(rule) ==
  \/ rule.kind = "array"
  \/ rule.kind = "string" /\ Len(rule.items[1]) > 0

startsWithRule(rule) ==
  LET valid == ValidEntries(rule)
  IN IF ~RuleGiven(rule) THEN <<>>
     ELSE IF Len(valid) = 1 THEN <<".startsWith('">> \o valid[1] \o <<"')">>
     ELSE IF Len(valid) > 1
     THEN <<".regex(/^(">> \o JoinWith(MapSeq(valid, EscapeRegex), <<"|">>)
          \o <<")/, { message: 'Must start with: ">> \o JoinWith(valid, <<",", " ">>)
          \o <<"' })">>
     ELSE <<>>

endsWithRule(rule) ==
  LET valid == ValidEntries(rule)
  IN IF ~RuleGiven(rule) THEN <<>>
     ELSE IF Len(valid) = 1 THEN <<".endsWith('">> \o valid[1] \o <<"')">>
     ELSE IF Len(valid) > 1
     THEN <<".regex(/(">> \o JoinWith(MapSeq(valid, EscapeRegex), <<"|">>)
          \o <<")$/, { message: 'Must end with: ">> \o JoinWith(valid, <<",", " ">>)
          \o <<"' })">>
     ELSE <<>>

When(cond, text) == IF cond THEN text ELSE <<>>

\* a priority order in which the last format rule wins
lastFormat(rules) ==
  IF rules.ipv6 THEN "ipv6"
  ELSE IF rules.ipv4 THEN "ipv4"
  ELSE IF rules.ip THEN "ip"
  ELSE IF rules.uuid THEN "uuid"
  ELSE IF rules.url THEN "url"
  ELSE "none"

\* the first truthy format rule in the order url, uuid, ip, ipv4, ipv6, or "none"
firstFormat(rules) ==
  IF rules.url THEN "url"
  ELSE IF rules.uuid THEN "uuid"
  ELSE IF rules.ip THEN "ip"
  ELSE IF rules.ipv4 THEN "ipv4"
  ELSE IF rules.ipv6 THEN "ipv6"
  ELSE "none"

applyValidationRules(schema, rules, propType) ==
  LET formatted == IF firstFormat(rules) # "none" THEN FormatSchema(firstFormat(rules))
                   ELSE schema
      isStringType == propType \in StringTypes
      lengthRules ==
        When(Defined(rules.minLength), Call(".min", NumText(rules.minLength[1])))
        \o When(Defined(rules.maxLength), Call(".max", NumText(rules.maxLength[1])))
      characterRules ==
        When(rules.alpha, <<".regex(/^[a-zA-Z]*$/, { message: 'Must contain only letters' })">>)
        \o When(rules.alphaNum,
                <<".regex(/^[a-zA-Z0-9]*$/, { message: 'Must contain only letters and numbers' })">>)
        \o When(rules.alphaDash,
                <<".regex(/^[a-zA-Z0-9_-]*$/, { message: 'Must contain only letters, numbers, dashes, and underscores' })">>)
        \o When(rules.numeric, <<".regex(/^\\d*$/, { message: 'Must contain only numbers' })">>)
        \o When(Defined(rules.digits),
                Call(".length", NumText(rules.digits[1]))
                \o <<".regex(/^\\d+$/, { message: 'Must be exactly ">>
                \o NumText(rules.digits[1]) \o <<" digits' })">>)
        \o When(Defined(rules.digitsBetween),
                Call(".min", NumText(rules.digitsBetween[1][1]))
                \o Call(".max", NumText(rules.digitsBetween[1][2]))
                \o <<".regex(/^\\d+$/, { message: 'Must be ">>
                \o NumText(rules.digitsBetween[1][1]) \o <<"-">>
                \o NumText(rules.digitsBetween[1][2]) \o <<" digits' })">>)
      matchingRules ==
        startsWithRule(rules.startsWith)
        \o endsWithRule(rules.endsWith)
        \o When(rules.lowercase,
                <<".refine(v => v === v.toLowerCase(), { message: 'Must be lowercase' })">>)
        \o When(rules.uppercase,
                <<".refine(v => v === v.toUpperCase(), { message: 'Must be uppercase' })">>)
      numericRules ==
        When(Defined(rules.min), Call(".gte", NumText(rules.min[1])))
        \o When(Defined(rules.max), Call(".lte", NumText(rules.max[1])))
        \o When(Defined(rules.between),
                Call(".gte", NumText(rules.between[1][1]))
                \o Call(".lte", NumText(rules.between[1][2])))
        \o When(Defined(rules.gt), Call(".gt", NumText(rules.gt[1])))
        \o When(Defined(rules.lt), Call(".lt", NumText(rules.lt[1])))
        \o When(Defined(rules.multipleOf), Call(".multipleOf", NumText(rules.multipleOf[1])))
  IN formatted
     \o When(isStringType, lengthRules \o characterRules \o matchingRules)
     \o When(propType \in NumericTypes, numericRules)

tLastname == <<"L", "a", "s", "t", "n", "a", "m", "e">>
tFirstName == <<"F", "i", "r", "s", "t", "N", "a", "m", "e">>
tFull == <<"f", "u", "l", "l">>
tFullKana == <<"f", "u", "l", "l", "K", "a", "n", "a">>
tAmount == <<"A", "m", "o", "u", "n", "t">>
tCurrency == <<"C", "u", "r", "r", "e", "n", "c", "y">>

\* the rules of one expansion entry or of one per-schema field override
FieldRules(minLength, maxLength, pattern, format) ==
  [minLength |-> minLength, maxLength |-> maxLength, pattern |-> pattern, format |-> format]

NoFieldRules == FieldRules(None, None, None, None)

\* one entry of customType.expand: suffix, sql.nullable, sql.length, typescript.type, rules
ExpandField(suffix, sqlNullable, sqlLength, tsType, rules) ==
  [suffix |-> suffix, sqlNullable |-> sqlNullable, sqlLength |-> sqlLength,
   tsType |-> tsType, rules |-> rules]

\* one CustomTypeDefinition: expand and accessors are optional lists
CustomType(name, compound, sqlLength, expand, accessors) ==
  [name |-> name, compound |-> compound, sqlLength |-> sqlLength,
   tsType |-> None, expand |-> expand, accessors |-> accessors]

\* options.customTypes: the custom types a plugin registered, two simple ones and four
\* compound ones (two entries and one accessor; two entries and no accessor list; an
\* empty entry list and two accessors; no entry list at all)
CustomTypes ==
  {CustomType("JapanesePhone", FALSE, Some(15), None, None),
   CustomType("Slug", FALSE, None, None, None),
   CustomType("JapaneseName", TRUE, None,
              Some(<<ExpandField(tLastname, None, Some(2), None, NoFieldRules),
                     ExpandField(tFirstName, Some(TRUE), None, None,
                                 FieldRules(Some(2), None, Some(<<"^", "a">>), None))>>),
              Some(<<tFullKana>>)),
   CustomType("Money", TRUE, None,
              Some(<<ExpandField(tAmount, Some(FALSE), None, Some(<<"number">>), NoFieldRules),
                     ExpandField(tCurrency, None, None, None,
                                 FieldRules(None, Some(1), Some(<<"^", "a">>), Some("url")))>>),
              None),
   CustomType("Tags", TRUE, None, Some(<<>>), Some(<<tFull, tFullKana>>)),
   CustomType("Opaque", TRUE, None, None, Some(<<tFull>>))}

IsSimpleCustom(def) ==
  def.withCustomTypes /\ \E ct \in CustomTypes : ct.name = def.type /\ ~ct.compound

CustomTypeOf(def) == CHOOSE ct \in CustomTypes : ct.name = def.type

OptionalNullable == <<".optional()", ".nullable()">>

\* maxLength ?? length
MaxLengthOf(def) == IF Defined(def.maxLength) THEN def.maxLength[1] ELSE def.length[1]

\* `${v}` for an entry of an inline value list: the string itself, or what String()
\* gives for a record
TemplateText(v) == IF v.labelled THEN <<"[object Object]">> ELSE v.value

EnumLiterals(values) ==
  <<"z.enum([">>
  \o JoinWith(MapSeq(values, LAMBDA v : Quoted(TemplateText(v))), <<",", " ">>)
  \o <<"])">>

\* a required string cannot be empty
requiredMinOmitted(def) == <<>>

\* if (!isNullable) schema += '.min(1)'
requiredMin(def) == When(~def.nullable, Call(".min", NumText(1)))

\* the switch over propDef.type; <<>> where the code returns ''
baseSchema(def) ==
  LET t == def.type
      bounds == When(Defined(def.min), Call(".gte", NumText(def.min[1])))
                \o When(Defined(def.max), Call(".lte", NumText(def.max[1])))
      maxPart == When(Truthy(def.maxLength) \/ Truthy(def.length),
                      Call(".max", NumText(MaxLengthOf(def))))
  IN IF t \in {"String", "Text", "MediumText", "LongText", "Password"}
     THEN LET s == <<"z.string()">> \o requiredMin(def) \o maxPart
          IN IF Truthy(def.minLength) /\ def.minLength[1] > 1
             THEN ReplaceFirst(s, Call(".min", NumText(1)), Call(".min", NumText(def.minLength[1])))
             ELSE s
     ELSE IF t = "Email" THEN <<"z.string()", ".email()">> \o maxPart
     ELSE IF t \in {"TinyInt", "Int", "BigInt"} THEN <<"z.number()", ".int()">> \o bounds
     ELSE IF t = "Float" THEN <<"z.number()">> \o bounds
     ELSE IF t = "Boolean" THEN <<"z.boolean()">>
     ELSE IF t = "Date" THEN <<"z.string()", ".date()">>
     ELSE IF t \in {"DateTime", "Timestamp"} THEN <<"z.string()", ".datetime({ offset: true })">>
     ELSE IF t = "Time" THEN <<"z.string()", ".time()">>
     ELSE IF t = "Json" THEN <<"z.unknown()">>
     ELSE IF t = "EnumRef"
          THEN IF def.enumKind = "name" THEN <<"z.nativeEnum(">> \o def.enumName \o <<")">>
               ELSE <<"z.string()">>
     ELSE IF t = "Enum"
          THEN IF def.enumKind = "name" THEN def.enumName \o <<"Schema">>
               ELSE IF def.enumKind = "list" THEN EnumLiterals(def.enumList)
               ELSE <<"z.string()">>
     ELSE IF t = "Select"
          THEN IF Len(def.options) > 0 THEN EnumLiterals(def.options) ELSE <<"z.string()">>
     ELSE IF t = "Lookup" THEN <<"z.number()", ".int()", ".positive()">>
     ELSE IF t \in {"Association", "File"} THEN <<>>
     ELSE <<"z.string()">>

getZodSchemaForType(def) ==
  IF IsSimpleCustom(def)
  THEN <<"z.string()">>
       \o When(Truthy(CustomTypeOf(def).sqlLength),
               Call(".max", NumText(CustomTypeOf(def).sqlLength[1])))
       \o When(def.nullable, OptionalNullable)
  ELSE LET base == baseSchema(def)
           ruled == IF def.hasRules /\ base # <<>>
                    THEN applyValidationRules(base, def.rules, def.type) ELSE base
           nulled == ruled \o When(def.nullable /\ ruled # <<>>, OptionalNullable)
       IN nulled \o When(def.pattern # <<>> /\ nulled # <<>>,
                         <<".regex(/">> \o def.pattern \o <<"/)">>)

\* customTypes.get(propDef.type)?.compound
IsCompoundCustom(def) ==
  def.withCustomTypes /\ \E ct \in CustomTypes : ct.name = def.type /\ ct.compound

\* a ?? b on optional values
Coalesce(a, b) == IF Defined(a) THEN a ELSE b

\* propDef.fields?.[field.suffix]
fieldOverride(def, field) ==
  LET hits == SelectSeq(def.fields, LAMBDA o : o.suffix = field.suffix)
  IN IF hits = <<>> THEN None ELSE Some(hits[1])

\* nullability of an expanded field in which the parent property comes first
expandedNullableParentFirst(def, field) == def.nullable

\* fieldOverride?.nullable ?? field.sql?.nullable ?? propDef.nullable ?? false
expandedNullable(def, field) ==
  LET fo == fieldOverride(def, field)
      own == IF Defined(fo) THEN fo[1].nullable ELSE None
  IN Coalesce(Coalesce(own, field.sqlNullable), Some(def.nullable))[1]

\* the validator of one expansion entry
compoundFieldSchema(def, field) ==
  LET fo == fieldOverride(def, field)
      overrideRules == IF Defined(fo) /\ Defined(fo[1].rules) THEN fo[1].rules[1]
                       ELSE NoFieldRules
      pluginRules == field.rules
      isNullable == expandedNullable(def, field)
      length == Coalesce(Coalesce(Coalesce(IF Defined(fo) THEN fo[1].length ELSE None,
                                           overrideRules.maxLength),
                                  pluginRules.maxLength),
                         field.sqlLength)
      minLength == Coalesce(overrideRules.minLength, pluginRules.minLength)
      pattern == Coalesce(overrideRules.pattern, pluginRules.pattern)
      format == Coalesce(overrideRules.format, pluginRules.format)
      base == IF format = Some("email") THEN <<"z.string()", ".email()">>
              ELSE IF format = Some("url") THEN <<"z.string()", ".url()">>
              ELSE IF format = Some("postal_code")
                   THEN <<"z.string()", ".regex(/^\\d{3}-?\\d{4}$/)">>
              ELSE <<"z.string()">>
      minPart == IF ~isNullable
                 THEN Call(".min", NumText(IF Defined(minLength) THEN minLength[1] ELSE 1))
                 ELSE When(Truthy(minLength), Call(".min", NumText(minLength[1])))
      maxPart == When(Truthy(length), Call(".max", NumText(length[1])))
      patternPart == When(Defined(pattern) /\ pattern # Some(<<>>) /\ ~Defined(format),
                          <<".regex(/">> \o pattern[1] \o <<"/)">>)
  IN base \o minPart \o maxPart \o patternPart \o When(isNullable, OptionalNullable)

generateCompoundTypeSchemas(def) ==
  LET customType == CustomTypeOf(def)
  IN IF ~Defined(customType.expand) THEN <<>>
     ELSE MapSeq(customType.expand[1],
                 LAMBDA field :
                   [fieldName |-> toSnakeCase(def.pname) \o <<"_">> \o toSnakeCase(field.suffix),
                    schema |-> compoundFieldSchema(def, field),
                    inCreate |-> TRUE, inUpdate |-> TRUE])

\* generateZodSchemas for one property: a compound property gets the validators of its
\* expansion entries, a property without validator gets no entry
generateZodSchemas(def) ==
  IF IsCompoundCustom(def) THEN generateCompoundTypeSchemas(def)
  ELSE IF getZodSchemaForType(def) = <<>> THEN <<>>
  ELSE <<[fieldName |-> toSnakeCase(def.pname), schema |-> getZodSchemaForType(def),
          inCreate |-> TRUE, inUpdate |-> TRUE]>>

\* generateZodSchemas(schema, options): the validators of the properties, in order
zodSchemasOf(schema) == Flatten(MapSeq(schema.properties, generateZodSchemas))

-----------------------------------------------------------------------------
(* Interface generator: type resolution and expansion of one property *)

tId == <<"i", "d">>
tCreatedAt == <<"c", "r", "e", "a", "t", "e", "d", "_", "a", "t">>
tUpdatedAt == <<"u", "p", "d", "a", "t", "e", "d", "_", "a", "t">>
tDeletedAt == <<"d", "e", "l", "e", "t", "e", "d", "_", "a", "t">>
tEmailVerifiedAt ==
  <<"e", "m", "a", "i", "l", "_", "v", "e", "r", "i", "f", "i", "e", "d", "_", "a", "t">>
tEmailVerifiedAtCamel ==
  <<"e", "m", "a", "i", "l", "V", "e", "r", "i", "f", "i", "e", "d", "A", "t">>
tComment == <<"C", "o", "m", "m", "e", "n", "t">>

\* a type expression is a sequence of pieces: the characters of a schema or enum name,
\* a primitive type name, "[]", and the characters of " | "
Unknown == <<"unknown">>
Bar == <<" ", "|", " ">>

\* what a lookup in TYPE_MAP gives for a key the object inherits from its prototype
InheritedMember == <<"[inherited member]">>
InheritedKeys == {"constructor", "toString", "valueOf", "hasOwnProperty"}

\* TYPE_MAP[type]: an optional value
TYPE_MAP(type) ==
  IF type \in {"String", "Text", "MediumText", "LongText", "Time", "Email", "Password",
               "Enum", "Select"} THEN Some(<<"string">>)
  ELSE IF type \in {"TinyInt", "Int", "BigInt", "Float", "Lookup"} THEN Some(<<"number">>)
  ELSE IF type = "Boolean" THEN Some(<<"boolean">>)
  ELSE IF type = "Date" THEN Some(<<"DateString">>)
  ELSE IF type \in {"DateTime", "Timestamp"} THEN Some(<<"DateTimeString">>)
  ELSE IF type = "Json" THEN Some(Unknown)
  ELSE IF type \in InheritedKeys THEN Some(InheritedMember)
  ELSE None

\* PK_TYPE_MAP[pkType] ?? "number"
PK_TYPE_MAP(pkType) ==
  IF pkType \in {"Uuid", "String"} THEN <<"string">> ELSE <<"number">>

\* a resolution that gives every association the bare target name
getPropertyTypeBareTarget(property) ==
  IF property.type = "Association"
  THEN Coalesce(property.target, Some(Unknown))[1]
  ELSE Coalesce(TYPE_MAP(property.type), Some(Unknown))[1]

\* the value getPropertyType returns: a type expression, or Undef or InheritedMember
\* where the code returns a value that is not a string
getPropertyType(property) ==
  LET targetName == Coalesce(property.target, Some(Unknown))[1]
      relation == property.relation
  IN IF property.type = "File"
     THEN IF property.multiple THEN <<"File", "[]">> ELSE <<"File">> \o Bar \o <<"null">>
     ELSE IF property.type = "Association"
     THEN IF relation \in {"OneToOne", "ManyToOne", "MorphOne"} THEN targetName
          ELSE IF relation \in {"OneToMany", "ManyToMany", "MorphMany", "MorphToMany",
                                "MorphedByMany"} THEN targetName \o <<"[]">>
          ELSE IF relation = "MorphTo"
          THEN IF Defined(property.targets) /\ Len(property.targets[1]) > 0
               THEN JoinWith(property.targets[1], Bar)
               ELSE Unknown
          ELSE Unknown
     ELSE IF property.type = "EnumRef"
     THEN IF property.enumKind = "name" THEN property.enumName ELSE Undef
     ELSE IF property.type = "Enum" /\ property.enumKind = "name" THEN property.enumName
     ELSE IF property.type = "Enum" /\ property.enumKind = "list"
     THEN JoinWith(MapSeq(property.enumList, LAMBDA v : Quoted(TemplateText(v))), Bar)
     ELSE IF property.type = "Select" /\ Len(property.options) > 0
     THEN JoinWith(MapSeq(property.options, LAMBDA v : Quoted(TemplateText(v))), Bar)
     ELSE Coalesce(TYPE_MAP(property.type), Some(Unknown))[1]

\* one field of an interface; comment is Undef where the code leaves it undefined (the
\* modelled properties have no displayName); readonly is options.readonly for every
\* field and is left out
TSProperty(name, type, optional, comment) ==
  [name |-> name, type |-> type, optional |-> optional, comment |-> comment]

\* options.customTypes.get(property.type) is a compound type with an expand list
HasExpansion(property) ==
  /\ IsCompoundCustom(property)
  /\ Defined(CustomTypeOf(property).expand)

\* fieldOverride?.nullable ?? field.sql?.nullable ?? baseProp.nullable ?? false
expandedOptional(property, field) ==
  LET fo == fieldOverride(property, field)
      own == IF Defined(fo) THEN fo[1].nullable ELSE None
  IN Coalesce(Coalesce(own, field.sqlNullable), Some(property.nullable))[1]

\* an expansion that has two fields whatever the custom type declares
expandCompoundFixed(property) ==
  <<TSProperty(property.pname \o <<"_", "a">>, <<"string">>, property.nullable, Undef),
    TSProperty(property.pname \o <<"_", "b">>, <<"string">>, property.nullable, Undef)>>

\* the fields of the expansion entries, then the fields of the accessors
expandCompound(property) ==
  LET customType == CustomTypeOf(property)
      entries ==
        MapSeq(customType.expand[1],
               LAMBDA field :
                 TSProperty(property.pname \o <<"_">> \o toSnakeCase(field.suffix),
                            Coalesce(field.tsType, Some(<<"string">>))[1],
                            expandedOptional(property, field),
                            property.pname \o <<" (">> \o field.suffix \o <<")">>))
      computed ==
        IF Defined(customType.accessors)
        THEN MapSeq(customType.accessors[1],
                    LAMBDA accessor :
                      TSProperty(property.pname \o <<"_">> \o toSnakeCase(accessor),
                                 <<"string">> \o Bar \o <<"null">>, TRUE,
                                 property.pname \o <<" (computed)">>))
        ELSE <<>>
  IN entries \o computed

\* relation === "MorphTo" && targets && targets.length > 0
IsMorphToWithTargets(property) ==
  /\ property.type = "Association"
  /\ property.relation = "MorphTo"
  /\ Defined(property.targets) /\ Len(property.targets[1]) > 0

\* an expansion of a morph-to property without its Id field
expandMorphToNoId(property) ==
  <<TSProperty(property.pname \o <<"T", "y", "p", "e">>,
               JoinWith(MapSeq(property.targets[1], Quoted), Bar), TRUE,
               <<"Polymorphic type for ">> \o property.pname),
    TSProperty(property.pname, JoinWith(property.targets[1], Bar) \o Bar \o <<"null">>,
               TRUE, <<"Polymorphic relation to ">> \o JoinWith(property.targets[1], <<",", " ">>))>>

expandMorphTo(property) ==
  <<TSProperty(property.pname \o <<"T", "y", "p", "e">>,
               JoinWith(MapSeq(property.targets[1], Quoted), Bar), TRUE,
               <<"Polymorphic type for ">> \o property.pname),
    TSProperty(property.pname \o <<"I", "d">>, <<"number">>, TRUE,
               <<"Polymorphic ID for ">> \o property.pname),
    TSProperty(property.pname, JoinWith(property.targets[1], Bar) \o Bar \o <<"null">>,
               TRUE, <<"Polymorphic relation to ">> \o JoinWith(property.targets[1], <<",", " ">>))>>

propertyToTSProperties(property) ==
  IF HasExpansion(property) THEN expandCompound(property)
  ELSE IF IsSimpleCustom(property)
  THEN <<TSProperty(property.pname,
                    Coalesce(CustomTypeOf(property).tsType, Some(<<"string">>))[1],
                    property.nullable, Undef)>>
  ELSE IF IsMorphToWithTargets(property) THEN expandMorphTo(property)
  ELSE <<TSProperty(property.pname, getPropertyType(property), property.nullable, Undef)>>

\* typeof type === "string"
IsTypeExpression(type) == type \notin {Undef, InheritedMember}

\* an interface that lists the audit timestamps before the fields of the properties
schemaToInterfaceStampsFirst(schema) ==
  LET own == Flatten(MapSeq(schema.properties, propertyToTSProperties))
      stamps == <<TSProperty(tCreatedAt, <<"DateTimeString">>, TRUE, <<"Creation timestamp">>),
                  TSProperty(tUpdatedAt, <<"DateTimeString">>, TRUE,
                             <<"Last update timestamp">>)>>
      properties == stamps \o own
  IN IF \E i \in DOMAIN properties : ~IsTypeExpression(properties[i].type)
     THEN [kind |-> "error", name |-> schema.name, properties |-> <<>>]
     ELSE [kind |-> "ok", name |-> schema.name, properties |-> properties]

\* the result of schemaToInterface: the interface, or the TypeError that
\* extractTypeReferences raises on a field type that is not a string
schemaToInterface(schema) ==
  LET pk == IF schema.options.id # Some(FALSE)
            THEN <<TSProperty(tId,
                              PK_TYPE_MAP(Coalesce(schema.options.idType, Some("BigInt"))[1]),
                              FALSE, <<"Primary key">>)>>
            ELSE <<>>
      own == Flatten(MapSeq(schema.properties, propertyToTSProperties))
      stamps == IF schema.options.timestamps # Some(FALSE)
                THEN <<TSProperty(tCreatedAt, <<"DateTimeString">>, TRUE,
                                  <<"Creation timestamp">>),
                       TSProperty(tUpdatedAt, <<"DateTimeString">>, TRUE,
                                  <<"Last update timestamp">>)>>
                ELSE <<>>
      softDelete == IF schema.options.softDelete = Some(TRUE)
                    THEN <<TSProperty(tDeletedAt, <<"DateTimeString">>, TRUE,
                                      <<"Soft delete timestamp">>)>>
                    ELSE <<>>
      properties == pk \o own \o stamps \o softDelete
  IN IF \E i \in DOMAIN properties : ~IsTypeExpression(properties[i].type)
     THEN [kind |-> "error", name |-> schema.name, properties |-> <<>>]
     ELSE [kind |-> "ok", name |-> schema.name, properties |-> properties]

-----------------------------------------------------------------------------
(* The payload shapes of one entity: create and update *)

\* the accessor field names of the properties whose custom type declares accessors
AccessorFieldsOf(schema) ==
  UNION {IF property.withCustomTypes
            /\ (\E ct \in CustomTypes : ct.name = property.type /\ Defined(ct.accessors))
         THEN {toSnakeCase(property.pname) \o <<"_">> \o toSnakeCase(accessor) :
                 accessor \in Range(CustomTypeOf(property).accessors[1])}
         ELSE {} : property \in Range(schema.properties)}

getExcludedFields(schema) ==
  LET excluded ==
        (IF schema.options.id # Some(FALSE) THEN {tId} ELSE {})
        \cup (IF schema.options.timestamps # Some(FALSE)
              THEN {tCreatedAt, tUpdatedAt} ELSE {})
        \cup (IF schema.options.softDelete = Some(TRUE) THEN {tDeletedAt} ELSE {})
        \cup (IF \E property \in Range(schema.properties) :
                   property.pname \in {tEmailVerifiedAtCamel, tEmailVerifiedAt}
              THEN {tEmailVerifiedAt} ELSE {})
        \cup AccessorFieldsOf(schema)
  IN [create |-> excluded, update |-> excluded]

\* shape.partial(): the same fields, every one optional
Partial(fields) == [fields |-> fields, allOptional |-> TRUE]

\* the shapes of formatZodSchemasSection: the field validators, the fields of the
\* create schema and the update schema
formatZodSchemasSection(zodSchemas, excludedFields) ==
  LET createFields ==
        SelectSeq(zodSchemas,
                  LAMBDA p : p.inCreate /\ p.fieldName \notin excludedFields.create)
      create == MapSeq(createFields, LAMBDA p : p.fieldName)
  IN [kind |-> "zod", schemas |-> zodSchemas, create |-> create, update |-> Partial(create)]

\* the excludeFields list of generateUtilityTypes
utilityExcludeFields(schema) ==
  (IF schema.options.id # Some(FALSE) THEN <<tId>> ELSE <<>>)
  \o (IF schema.options.timestamps # Some(FALSE) THEN <<tCreatedAt, tUpdatedAt>> ELSE <<>>)
  \o (IF schema.options.softDelete = Some(TRUE) THEN <<tDeletedAt>> ELSE <<>>)
  \o (IF \E property \in Range(schema.properties) :
           property.pname \in {tEmailVerifiedAtCamel, tEmailVerifiedAt}
      THEN <<tEmailVerifiedAt>> ELSE <<>>)
  \o Flatten(MapSeq(schema.properties,
                    LAMBDA property :
                      IF property.withCustomTypes
                         /\ (\E ct \in CustomTypes :
                               ct.name = property.type /\ Defined(ct.accessors))
                      THEN MapSeq(CustomTypeOf(property).accessors[1],
                                  LAMBDA accessor :
                                    toSnakeCase(property.pname) \o <<"_">>
                                    \o toSnakeCase(accessor))
                      ELSE <<>>))

\* the shapes of generateUtilityTypes: Omit<Name, excludeFields> and its Partial
generateUtilityTypes(schema, iface) ==
  LET omitted == Range(utilityExcludeFields(schema))
      kept == SelectSeq(iface.properties, LAMBDA p : p.name \notin omitted)
      create == MapSeq(kept, LAMBDA p : p.name)
  IN [kind |-> "utility", schemas |-> <<>>, create |-> create, update |-> Partial(create)]

NoSection == [kind |-> "none", schemas |-> <<>>, create |-> <<>>, update |-> Partial(<<>>)]

NoInterface == [kind |-> "none", name |-> <<>>, properties |-> <<>>]

-----------------------------------------------------------------------------
(* Validator synthesis: inputs and state machine *)

NoStringList == [kind |-> "absent", items |-> <<>>]

NoRules ==
  [url |-> FALSE, uuid |-> FALSE, ip |-> FALSE, ipv4 |-> FALSE, ipv6 |-> FALSE,
   minLength |-> None, maxLength |-> None,
   alpha |-> FALSE, alphaNum |-> FALSE, alphaDash |-> FALSE, numeric |-> FALSE,
   digits |-> None, digitsBetween |-> None,
   startsWith |-> NoStringList, endsWith |-> NoStringList,
   lowercase |-> FALSE, uppercase |-> FALSE,
   min |-> None, max |-> None, between |-> None, gt |-> None, lt |-> None,
   multipleOf |-> None]

RuleArgs == 0..MaxRuleArg

\* rule bags without a format rule
OtherRuleBags ==
  {NoRules}
  \cup {[NoRules EXCEPT !.minLength = Some(a)] : a \in RuleArgs}
  \cup {[NoRules EXCEPT !.maxLength = Some(a), !.alphaNum = TRUE] : a \in RuleArgs}
  \cup {[NoRules EXCEPT !.digits = Some(a), !.lowercase = TRUE] : a \in RuleArgs}
  \cup {[NoRules EXCEPT !.startsWith = [kind |-> "array", items |-> <<<<"h", "t", "t", "p">>, <<>>>>],
                        !.endsWith = [kind |-> "string", items |-> <<<<".", "j", "p">>>>]],
        [NoRules EXCEPT !.startsWith = [kind |-> "array", items |-> <<<<"a">>, <<"b", ".">>>>],
                        !.uppercase = TRUE],
        [NoRules EXCEPT !.startsWith = [kind |-> "array", items |-> <<<<>>>>],
                        !.endsWith = [kind |-> "string", items |-> <<<<>>>>]],
        [NoRules EXCEPT !.startsWith = [kind |-> "string", items |-> <<<<"a", "-">>>>],
                        !.endsWith = [kind |-> "array",
                                      items |-> <<<<".", "j", "p">>, <<>>, <<"+">>>>]],
        [NoRules EXCEPT !.startsWith = [kind |-> "array", items |-> <<>>],
                        !.endsWith = [kind |-> "array", items |-> <<<<>>, <<"z">>>>]]}
  \cup {[NoRules EXCEPT !.min = Some(a), !.max = Some(b)] : a, b \in RuleArgs}
  \cup {[NoRules EXCEPT !.between = Some(<<a, MaxRuleArg>>), !.multipleOf = Some(a)] : a \in RuleArgs}

FormatBags ==
  {[url |-> b[1], uuid |-> b[2], ip |-> b[3], ipv4 |-> b[4], ipv6 |-> b[5]] :
     b \in [1..5 -> BOOLEAN]}

WithFormats(bag, f) ==
  [bag EXCEPT !.url = f.url, !.uuid = f.uuid, !.ip = f.ip, !.ipv4 = f.ipv4, !.ipv6 = f.ipv6]

\* the rule bags a format rule is combined with
FormatCompanions ==
  {NoRules,
   [NoRules EXCEPT !.minLength = Some(MaxRuleArg), !.alpha = TRUE],
   [NoRules EXCEPT !.startsWith = [kind |-> "array", items |-> <<<<"a">>, <<"b">>>>]],
   [NoRules EXCEPT !.min = Some(0), !.lt = Some(MaxRuleArg)]}

RuleBags ==
  OtherRuleBags \cup {WithFormats(bag, f) : bag \in FormatCompanions, f \in FormatBags}

ZodTypes ==
  {"String", "Text", "MediumText", "LongText", "Password", "Email", "TinyInt", "Int",
   "BigInt", "Float", "Boolean", "Date", "DateTime", "Timestamp", "Time", "Json",
   "EnumRef", "Enum", "Select", "Lookup", "Association", "File", "JapanesePhone",
   "Slug", "Polygon"}

PropertyDef(type, nullable, withCustomTypes, hasRules, rules, top) ==
  [pname |-> tName, type |-> type, nullable |-> nullable,
   withCustomTypes |-> withCustomTypes, hasRules |-> hasRules, rules |-> rules,
   length |-> top.length, maxLength |-> top.maxLength, minLength |-> top.minLength,
   min |-> top.min, max |-> top.max, pattern |-> top.pattern,
   enumKind |-> IF type \in {"Enum", "EnumRef"} THEN top.enumKind ELSE "absent",
   enumName |-> tStatus, enumList |-> PlainValues,
   options |-> IF type = "Select" /\ top.enumKind = "list" THEN PlainValues ELSE <<>>,
   relation |-> "absent", target |-> None, targets |-> None, multiple |-> FALSE,
   fields |-> <<>>]

TopLevel(length, minLength, min, pattern, enumKind) ==
  [length |-> length, maxLength |-> None, minLength |-> minLength, min |-> min,
   max |-> None, pattern |-> pattern, enumKind |-> enumKind]

TopLevels ==
  {TopLevel(None, None, None, <<>>, "absent"),
   TopLevel(Some(MaxRuleArg), Some(MaxRuleArg), Some(0), <<>>, "list"),
   TopLevel(None, None, None, <<"^", "a">>, "name")}

ZodInputs ==
  {PropertyDef(t, n, c, TRUE, r, top) :
     t \in ZodTypes, n \in BOOLEAN, c \in BOOLEAN, r \in RuleBags, top \in TopLevels}
  \cup {PropertyDef(t, n, c, FALSE, NoRules, top) :
     t \in ZodTypes, n \in BOOLEAN, c \in BOOLEAN, top \in TopLevels}

InitZod ==
  /\ GenInit
  /\ EntityIdle
  /\ zprop \in ZodInputs
  /\ zout = <<>>
  /\ zpc = "ready"

\* generateZodSchemas reaches the property and synthesizes its validator
Synthesize ==
  /\ zpc = "ready"
  /\ zout' = generateZodSchemas(zprop)
  /\ zpc' = "done"
  /\ UNCHANGED <<zprop, genVars, entVars>>

NextZod == Synthesize

SpecZod == InitZod /\ [][NextZod]_vars

-----------------------------------------------------------------------------
(* Base file of one entity: inputs and state machine *)

MaxProps == 2

tOwner == <<"o", "w", "n", "e", "r">>
tBillingName == <<"b", "i", "l", "l", "i", "n", "g", "N", "a", "m", "e">>
tNameFullKana == <<"n", "a", "m", "e", "_", "f", "u", "l", "l", "_", "k", "a", "n", "a">>

\* a property without rules; the registry flag is set when the entity is built
EntityProp(pname, type, nullable, enumKind) ==
  [PropertyDef(type, nullable, FALSE, FALSE, NoRules,
               TopLevel(None, None, None, <<>>, enumKind)) EXCEPT !.pname = pname]

AssociationProp(relation, target, targets, nullable) ==
  [EntityProp(tOwner, "Association", nullable, "absent")
     EXCEPT !.relation = relation, !.target = target, !.targets = targets]

\* an Enum property with an inline value list, or a Select property with options
InlineEnumProp(type, values) ==
  [EntityProp(tStatusProp, type, FALSE, "list")
     EXCEPT !.enumList = values, !.options = IF type = "Select" THEN values ELSE <<>>]

FileProp(multiple, nullable) ==
  [EntityProp(tName, "File", nullable, "absent") EXCEPT !.multiple = multiple]

\* one entry of property.fields: the per-schema override of one expansion entry
FieldOverride(suffix, nullable, length, rules) ==
  [suffix |-> suffix, nullable |-> nullable, length |-> length, rules |-> rules]

CompoundProp(pname, type, nullable, fields) ==
  [EntityProp(pname, type, nullable, "absent") EXCEPT !.fields = fields]

\* type tags of plain properties: the built-in ones, the two simple custom types, a tag
\* nobody knows and a tag that is a member every object inherits
PlainTypes ==
  {"String", "Text", "MediumText", "LongText", "Password", "Email", "TinyInt", "Int",
   "BigInt", "Float", "Boolean", "Date", "DateTime", "Timestamp", "Time", "Json",
   "Lookup", "JapanesePhone", "Slug", "Polygon", "constructor"}

Relations ==
  {"OneToOne", "ManyToOne", "OneToMany", "ManyToMany", "MorphOne", "MorphMany",
   "MorphToMany", "MorphedByMany", "HasManyThrough", "absent"}

OverrideSets ==
  {<<>>,
   <<FieldOverride(tLastname, Some(TRUE), None, None)>>,
   <<FieldOverride(tFirstName, Some(FALSE), Some(1),
                   Some(FieldRules(Some(0), None, None, Some("email"))))>>,
   <<FieldOverride(tAmount, Some(TRUE), None, None),
     FieldOverride(tCurrency, Some(FALSE), None, Some(NoFieldRules))>>}

SingleProps ==
  {EntityProp(tName, t, n, "absent") : t \in PlainTypes, n \in BOOLEAN}
  \cup {EntityProp(tStatusProp, "Enum", n, k) : n \in BOOLEAN, k \in {"name", "list", "absent"}}
  \cup {EntityProp(tStatusProp, "EnumRef", FALSE, k) : k \in {"name", "absent"}}
  \cup {EntityProp(tStatusProp, "Select", FALSE, k) : k \in {"list", "absent"}}
  \cup {InlineEnumProp(t, vs) :
          t \in {"Enum", "Select"},
          vs \in {LabelledValues, <<EnumValue(tInactive, FALSE)>>, <<>>}}
  \cup {AssociationProp(r, t, None, FALSE) : r \in Relations, t \in {None, Some(tPost)}}
  \cup {AssociationProp("MorphTo", None, ts, n) :
          ts \in {None, Some(<<>>), Some(<<tPost>>), Some(<<tPost, tComment>>)},
          n \in BOOLEAN}
  \cup {FileProp(m, n) : m \in BOOLEAN, n \in BOOLEAN}
  \cup {CompoundProp(tName, t, n, f) :
          t \in {"JapaneseName", "Money", "Tags", "Opaque"}, n \in BOOLEAN, f \in OverrideSets}
  \cup {CompoundProp(tBillingName, "JapaneseName", n, f) : n \in BOOLEAN, f \in OverrideSets}

\* properties whose names meet the names of the fields the generator adds or excludes
PoolProps ==
  {EntityProp(tId, "String", FALSE, "absent"),
   EntityProp(tCreatedAt, "Timestamp", TRUE, "absent"),
   EntityProp(tDeletedAt, "Timestamp", TRUE, "absent"),
   EntityProp(tEmailVerifiedAtCamel, "Timestamp", TRUE, "absent"),
   EntityProp(tNameFullKana, "String", TRUE, "absent"),
   CompoundProp(tName, "JapaneseName", FALSE, <<>>)}

\* the lists of up to MaxProps properties with different names
PoolLists ==
  UNION {{ps \in [1..n -> PoolProps] :
            \A i, j \in 1..n : i # j => ps[i].pname # ps[j].pname} : n \in 0..MaxProps}

PropertyLists == {<<q>> : q \in SingleProps} \cup PoolLists

\* schema.options: id, idType, timestamps, softDelete, each optional
SchemaOptions ==
  {[id |-> i, idType |-> None, timestamps |-> t, softDelete |-> d] :
     i \in {None, Some(FALSE)}, t \in {None, Some(FALSE)}, d \in {None, Some(TRUE)}}
  \cup {[id |-> None, idType |-> Some("Uuid"), timestamps |-> None, softDelete |-> None]}

EntityOptions == [customTypes : BOOLEAN, generateZodSchemas : BOOLEAN]

\* the schema with the plugin's registry seen by each of its properties
EntitySchema(options, properties, customTypes) ==
  [name |-> tUser, kind |-> "object", options |-> options,
   properties |-> MapSeq(properties, LAMBDA q : [q EXCEPT !.withCustomTypes = customTypes])]

InitEntity ==
  /\ GenInit
  /\ ZodIdle
  /\ eopts \in EntityOptions
  /\ eschema \in {EntitySchema(o, ps, eopts.customTypes) :
                    o \in SchemaOptions, ps \in PropertyLists}
  /\ eiface = NoInterface
  /\ esection = NoSection
  /\ epc = "ready"

\* generateBaseInterfaceFile builds the interface of the entity and, with it, the
\* validator section or the utility types; a throw of schemaToInterface ends it
GenerateBaseInterface ==
  /\ epc = "ready"
  /\ LET iface == schemaToInterface(eschema)
     IN /\ eiface' = iface
        /\ esection' = IF iface.kind = "error" THEN NoSection
                       ELSE IF eopts.generateZodSchemas
                       THEN formatZodSchemasSection(zodSchemasOf(eschema),
                                                    getExcludedFields(eschema))
                       ELSE generateUtilityTypes(eschema, iface)
        /\ epc' = IF iface.kind = "error" THEN "thrown" ELSE "done"
  /\ UNCHANGED <<eschema, eopts, genVars, zodVars>>

NextEntity == GenerateBaseInterface

SpecEntity == InitEntity /\ [][NextEntity]_vars

-----------------------------------------------------------------------------
(* Vocabulary of the properties *)

Indices(seq, P(_)) == {i \in DOMAIN seq : P(seq[i])}

\* the run has left generateTypeScript (it returned or threw) and nothing was reset since
CallOver == runs > 0 /\ result.kind # "none"

ObjectNames(ss) == {ss[i].name : i \in {j \in DOMAIN ss : ss[j].kind = "object"}}

BaseFilesOf(fs, name) ==
  Indices(fs, LAMBDA f : f.filePath = tBaseSlash \o name \o tDotTs
                         /\ f.category = "base" /\ f.overwrite)

ModelFilesOf(fs, name) ==
  Indices(fs, LAMBDA f : f.filePath = name \o tDotTs /\ ~f.overwrite)

\* the model file imports the base module of the same name and extends its interface
ExtendsOwnBase(f, name) ==
  /\ f.content.extends = name \o tBaseSuffix
  /\ \E i \in DOMAIN f.content.imports :
       f.content.imports[i] = basePrefixOf(opts) \o tSlash \o name \o getImportExt(opts)

HasBaseAndModel(fs, name) ==
  /\ Cardinality(BaseFilesOf(fs, name)) = 1
  /\ Cardinality(ModelFilesOf(fs, name)) = 1
  /\ \A i \in ModelFilesOf(fs, name) : ExtendsOwnBase(fs[i], name)

HasNeither(fs, name) == BaseFilesOf(fs, name) = {} /\ ModelFilesOf(fs, name) = {}

IsEnumOrSupportFile(f) ==
  \/ f.category \in {"enum", "plugin-enum"}
  \/ f.filePath \in {tCommonTs, tI18nTs, tIndexTs}

IsEntityModelFile(f) ==
  /\ f.category = "none"
  /\ f.content.header = generateModelHeader
  /\ \E i \in DOMAIN schemas :
       schemas[i].kind = "object" /\ f.filePath = schemas[i].name \o tDotTs

\* names that more than one schema of the collection has
DuplicatedNames(ss) ==
  {ss[i].name : i \in {j \in DOMAIN ss : \E k \in DOMAIN ss : k # j /\ ss[k].name = ss[j].name}}

\* the error names n together with every source that defines n
ReportsAllSourcesOf(err, ss, n) ==
  \E e \in DOMAIN err.entries :
    /\ err.entries[e].name = n
    /\ \A i \in DOMAIN ss : ss[i].name = n => ss[i].path \in Range(err.entries[e].sources)
    /\ Len(err.entries[e].sources) = Cardinality({i \in DOMAIN ss : ss[i].name = n})

\* schema enums that have the name of a plugin enum
ConflictingEnums(ss, pes) ==
  {i \in DOMAIN ss : ss[i].kind = "enum" /\ \E j \in DOMAIN pes : pes[j].name = ss[i].name}

\* the error names schema i together with its source
ReportsSchema(err, s) ==
  \E e \in DOMAIN err.entries :
    err.entries[e].name = s.name /\ s.path \in Range(err.entries[e].sources)

\* the names of the inline enums and aliases extracted in this run, with repetitions
InlineNames(ss) == MapSeq(extractInlineEnums(ss), LAMBDA it : it.name)

\* an extracted inline enum has the name of a schema enum, a plugin enum or another inline enum
InlineNameCollision(ss, pes) ==
  LET names == InlineNames(ss)
  IN \E i \in DOMAIN names :
       \/ \E j \in DOMAIN ss : ss[j].kind = "enum" /\ ss[j].name = names[i]
       \/ \E j \in DOMAIN pes : pes[j].name = names[i]
       \/ \E j \in DOMAIN names : j # i /\ names[j] = names[i]

ExpectedFileCount(ss, pes, o) ==
  LET visible == Cardinality({i \in DOMAIN ss : IsVisibleObject(ss[i])})
  IN Cardinality({i \in DOMAIN ss : ss[i].kind = "enum" /\ ss[i].hasValues})
     + Len(pes) + Len(extractInlineEnums(ss))
     + 2 * visible
     + (IF ~o.generateZodSchemas /\ o.generateRules THEN visible ELSE 0)
     + 3

-----------------------------------------------------------------------------
(* Properties *)

C2_EveryEntityTwoFiles ==
  result.kind = "ok" =>
    \A n \in ObjectNames(schemas) : HasBaseAndModel(result.files, n)

\* C2 amended: every object schema that is not hidden has exactly one base file
\* (overwrite = true) and exactly one model file (overwrite = false) that imports and
\* extends the base of the same name; a hidden object schema has neither.
C2_VisibleEntityTwoFiles ==
  result.kind = "ok" =>
    \A i \in DOMAIN schemas :
      schemas[i].kind = "object" =>
        IF schemas[i].hidden THEN HasNeither(result.files, schemas[i].name)
        ELSE HasBaseAndModel(result.files, schemas[i].name)

\* C2 witness: a successful run on a collection with a visible and a hidden entity
C2_Witness ==
  /\ result.kind = "ok"
  /\ \E i, j \in DOMAIN schemas :
       /\ schemas[i].kind = "object" /\ ~schemas[i].hidden
       /\ schemas[j].kind = "object" /\ schemas[j].hidden

\* C3: in every file list, every enum file and every shared support file has
\* overwrite = true, and a file with overwrite = false is an entity model file.
C3_OnlyModelFilesAreKept ==
  \A i \in DOMAIN files :
    /\ IsEnumOrSupportFile(files[i]) => files[i].overwrite
    /\ ~files[i].overwrite => IsEntityModelFile(files[i])

\* C3 witness: a returned list with a schema enum, a plugin enum, an inline type alias,
\* the index and a model file
C3_Witness ==
  /\ pc = "returned"
  /\ \E i \in DOMAIN files : files[i].category = "plugin-enum"
  /\ \E i \in DOMAIN files : files[i].category = "enum" /\ files[i].filePath = tStatus \o tDotTs
  /\ \E i \in DOMAIN files : files[i].filePath = tUserStatus \o tDotTs
  /\ \E i \in DOMAIN files : files[i].filePath = tIndexTs
  /\ \E i \in DOMAIN files : ~files[i].overwrite

C5_AllOrNothing ==
  /\ pc = "prepass" => files = <<>>
  /\ result.kind = "error" =>
       /\ result.files = <<>>
       /\ outputs = <<>>
       /\ result.class \in {"DuplicateNames", "PluginEnumConflict"} => files = <<>>
  /\ result.kind = "ok" =>
       /\ result.files = files
       /\ Len(files) = ExpectedFileCount(schemas, pluginEnums, opts)
       /\ files[Len(files)].filePath = tIndexTs
  /\ outputs # <<>> =>
       /\ result.kind = "ok"
       /\ \A i \in DOMAIN files : \E j \in DOMAIN outputs : outputs[j] = routeFile(files[i])

\* C5 witness: a collision error on an input that would otherwise yield enum files
C5_Witness ==
  /\ result.kind = "error"
  /\ result.class = "PluginEnumConflict"
  /\ pc = "failed"
  /\ EnumPhaseFiles(schemas, pluginEnums) # <<>>

\* C6: when two or more schemas share a name, the call throws an error that names every
\* duplicated name together with all the sources that define it.
C6_DuplicatesAllReported ==
  (CallOver /\ DuplicatedNames(schemas) # {}) =>
    /\ result.kind = "error"
    /\ \A n \in DuplicatedNames(schemas) : ReportsAllSourcesOf(result, schemas, n)

\* C6 witness: an error for a collection with two duplicated names
C6_Witness ==
  /\ CallOver
  /\ result.class = "DuplicateNames"
  /\ Cardinality(DuplicatedNames(schemas)) = 2

\* C7: when a schema enum has the name of a plugin enum, the call throws an error that
\* lists every such schema enum with its source.
C7_ConflictsAllReported ==
  (CallOver /\ ConflictingEnums(schemas, pluginEnums) # {}) =>
    /\ result.kind = "error"
    /\ \A i \in ConflictingEnums(schemas, pluginEnums) : ReportsSchema(result, schemas[i])

\* C8: when the name of an extracted inline enum is the name of a schema enum, of a
\* plugin enum or of another inline enum, the run ends in an error and emits no file.
C8_InlineCollisionFatal ==
  (CallOver /\ InlineNameCollision(schemas, pluginEnums)) =>
    /\ result.kind = "error"
    /\ result.files = <<>>

\* C9: when the input has duplicate schema names and schema-enum/plugin-enum conflicts,
\* one error lists every duplicated name with its sources and every conflicting enum
\* with its source.
C9_AllClassesReportedTogether ==
  (/\ CallOver
   /\ DuplicatedNames(schemas) # {}
   /\ ConflictingEnums(schemas, pluginEnums) # {}) =>
    /\ result.kind = "error"
    /\ \A n \in DuplicatedNames(schemas) : ReportsAllSourcesOf(result, schemas, n)
    /\ \A i \in ConflictingEnums(schemas, pluginEnums) : ReportsSchema(result, schemas[i])

\* the format validators of a synthesized validator, in order of appearance
FormatPieces ==
  {".url()", ".uuid()", ".ip()", ".ip({ version: \"v4\" })", ".ip({ version: \"v6\" })"}

FormatsIn(schema) == SelectSeq(schema, LAMBDA piece : piece \in FormatPieces)

HasFormatRule(def) == def.hasRules /\ firstFormat(def.rules) # "none"

\* the priority order spelled out: the first of url, uuid, ip, ipv4, ipv6 that is set
HighestPriorityFormat(rules) ==
  FormatNames[CHOOSE i \in 1..5 :
                /\ rules[FormatNames[i]]
                /\ \A j \in 1..(i - 1) : ~rules[FormatNames[j]]]

\* the validator is the string validator of format f alone at its head: exactly one
\* format validator, in place of the base validator
OnlyFormat(schema, f) ==
  /\ Len(schema) >= 2
  /\ SubSeq(schema, 1, 2) = FormatSchema(f)
  /\ FormatsIn(schema) = <<FormatSchema(f)[2]>>

HasSuffix(s, suf) == Len(s) >= Len(suf) /\ SubSeq(s, Len(s) - Len(suf) + 1, Len(s)) = suf
Contains(s, pat) == \E i \in 1..(Len(s) - Len(pat) + 1) : SubSeq(s, i, i + Len(pat) - 1) = pat
CountPiece(s, piece) == Len(SelectSeq(s, LAMBDA x : x = piece))

\* C11 as stated: the validator of a nullable property ends with the optional, nullable
\* suffix; every other constraint (base, length, format, character class, pattern,
\* string matching, numeric) comes before it.
C11_NullableSuffixLast ==
  \A i \in DOMAIN zout : zprop.nullable => HasSuffix(zout[i].schema, OptionalNullable)

\* the kinds of the string case of the validator switch
PlainStringKinds == {"String", "Text", "MediumText", "LongText", "Password"}

IsPlainString(def) == def.type \in PlainStringKinds /\ ~IsSimpleCustom(def)

\* no length given at the top level of the property or in its rules bag
NoLengthRule(def) ==
  /\ ~Defined(def.length) /\ ~Defined(def.maxLength) /\ ~Defined(def.minLength)
  /\ def.hasRules => (~Defined(def.rules.minLength) /\ ~Defined(def.rules.maxLength))

MinOne == <<".min", "(", "1", ")">>

\* C12 as stated: the validator of a required string property with no explicit length
\* rule has the minimum length 1 constraint, whichever other rules are set.
C12_RequiredStringMinOne ==
  (zpc = "done" /\ IsPlainString(zprop) /\ ~zprop.nullable /\ NoLengthRule(zprop)) =>
    /\ zout # <<>>
    /\ \A i \in DOMAIN zout : Contains(zout[i].schema, MinOne)

\* C12 amended: the same for a property with no format rule (url, uuid, ip, ipv4, ipv6)
\* set; a format rule puts its own validator in place of the base validator and the
\* minimum length 1 constraint goes with the base.
C12_RequiredStringMinOneNoFormat ==
  (/\ zpc = "done"
   /\ IsPlainString(zprop) /\ ~zprop.nullable /\ NoLengthRule(zprop)
   /\ ~HasFormatRule(zprop)) =>
    /\ zout # <<>>
    /\ \A i \in DOMAIN zout : Contains(zout[i].schema, MinOne)

\* C12 witness: a validator synthesized for a required Password property whose rules
\* bag has a digits and a lowercase rule and no length or format rule
C12_Witness ==
  /\ zpc = "done"
  /\ zout # <<>>
  /\ zprop.type = "Password" /\ ~zprop.nullable
  /\ NoLengthRule(zprop) /\ ~HasFormatRule(zprop)
  /\ zprop.hasRules /\ zprop.rules.lowercase /\ Defined(zprop.rules.digits)
  /\ zprop.pattern # <<>>

\* the entries of a startsWith/endsWith rule after discarding the empty ones
NonEmptyEntries(rule) ==
  LET given == IF rule.kind = "absent" THEN <<>> ELSE rule.items
  IN SelectSeq(given, LAMBDA e : e # <<>>)

Alternation(entries) == JoinWith(MapSeq(entries, EscapeRegex), <<"|">>)

\* the validator has the constraint the entries call for, once, and no other
\* constraint of the rule: `direct` opens the direct check, `regex` and `close`
\* enclose the alternation
MatchesEntries(schema, entries, direct, regex, close) ==
  /\ Len(entries) = 0 =>
       CountPiece(schema, direct) = 0 /\ CountPiece(schema, regex) = 0
  /\ Len(entries) = 1 =>
       /\ CountPiece(schema, direct) = 1 /\ CountPiece(schema, regex) = 0
       /\ Contains(schema, <<direct>> \o entries[1] \o <<"')">>)
  /\ Len(entries) > 1 =>
       /\ CountPiece(schema, direct) = 0 /\ CountPiece(schema, regex) = 1
       /\ Contains(schema, <<regex>> \o Alternation(entries) \o <<close>>)

StringKinds == {"String", "Text", "MediumText", "LongText", "Password", "Email"}
NumericKinds == {"Int", "TinyInt", "BigInt", "Float"}

\* C13: for the startsWith/endsWith rule of a string property, after discarding empty
\* entries, one entry gives a direct prefix/suffix check, two or more give one
\* alternation regex, and none gives no constraint at all.
C13_StartsEndsWith ==
  \A i \in DOMAIN zout :
    (zprop.hasRules /\ zprop.type \in StringKinds /\ ~IsSimpleCustom(zprop)) =>
      /\ MatchesEntries(zout[i].schema, NonEmptyEntries(zprop.rules.startsWith),
                        ".startsWith('", ".regex(/^(",
                        ")/, { message: 'Must start with: ")
      /\ MatchesEntries(zout[i].schema, NonEmptyEntries(zprop.rules.endsWith),
                        ".endsWith('", ".regex(/(",
                        ")$/, { message: 'Must end with: ")

\* C13 witness: a validator synthesized for a string property whose startsWith rule
\* is a single string and whose endsWith list has an empty entry between two others
C13_Witness ==
  /\ zpc = "done"
  /\ zout # <<>>
  /\ zprop.type = "Text" /\ zprop.hasRules /\ ~IsSimpleCustom(zprop)
  /\ zprop.rules.startsWith.kind = "string"
  /\ Len(zprop.rules.endsWith.items) = 3
  /\ Len(NonEmptyEntries(zprop.rules.endsWith)) = 2

\* C13 witness of the empty case: a rule whose only entry is the empty string
C13_WitnessAllEmpty ==
  /\ zpc = "done"
  /\ zout # <<>>
  /\ zprop.type = "String" /\ zprop.hasRules
  /\ zprop.rules.startsWith = [kind |-> "array", items |-> <<<<>>>>]

WithoutNumericRules(def) ==
  [def EXCEPT !.min = None, !.max = None,
              !.rules = [@ EXCEPT !.min = None, !.max = None, !.between = None,
                                  !.gt = None, !.lt = None, !.multipleOf = None]]

WithoutStringRules(def) ==
  [def EXCEPT !.length = None, !.minLength = None, !.maxLength = None,
              !.rules = [@ EXCEPT !.minLength = None, !.maxLength = None,
                                  !.alpha = FALSE, !.alphaNum = FALSE,
                                  !.alphaDash = FALSE, !.numeric = FALSE,
                                  !.digits = None, !.digitsBetween = None,
                                  !.startsWith = NoStringList, !.endsWith = NoStringList,
                                  !.lowercase = FALSE, !.uppercase = FALSE]]

\* C14: a numeric rule on a property that is not of a numeric kind, and a string rule
\* on a property that is not of a string kind, contribute nothing: the validator is
\* the one the property gets without those rules.
C14_OtherFamilyContributesNothing ==
  zpc = "done" =>
    /\ zprop.type \notin NumericKinds => zout = generateZodSchemas(WithoutNumericRules(zprop))
    /\ zprop.type \notin StringKinds => zout = generateZodSchemas(WithoutStringRules(zprop))

\* C14 witness: a validator synthesized for a String property with min and max rules,
\* none of which shows in it
C14_Witness ==
  /\ zpc = "done"
  /\ zout # <<>>
  /\ zprop.type = "String" /\ zprop.hasRules
  /\ Defined(zprop.rules.min) /\ Defined(zprop.rules.max)
  /\ CountPiece(zout[1].schema, ".gte") = 0 /\ CountPiece(zout[1].schema, ".lte") = 0

\* C14 witness of the other direction: a validator synthesized for an Int property
\* with a minLength and an alpha rule
C14_WitnessNumeric ==
  /\ zpc = "done"
  /\ zout # <<>>
  /\ zprop.type = "Int" /\ zprop.hasRules
  /\ Defined(zprop.rules.minLength) /\ zprop.rules.alpha
  /\ CountPiece(zout[1].schema, ".min") = 0

\* the fields schemaToInterface adds to the fields of the properties: primary key,
\* audit timestamps, soft-delete marker
IsAddedBySchema(field) ==
  field.comment \in {<<"Primary key">>, <<"Creation timestamp">>,
                     <<"Last update timestamp">>, <<"Soft delete timestamp">>}

\* the field of an accessor of a compound type
IsComputed(field) == HasSuffix(field.comment, <<" (computed)">>)

\* the fields of the interface that come from the properties of the schema
OwnFields(iface) == SelectSeq(iface.properties, LAMBDA f : ~IsAddedBySchema(f))

\* the names of the fields a create payload must not have
ProtectedFields(iface) ==
  {iface.properties[i].name :
     i \in {j \in DOMAIN iface.properties :
              IsAddedBySchema(iface.properties[j]) \/ IsComputed(iface.properties[j])}}

\* C15 as stated: the create shape of the base file of an entity (the create schema of
\* the validator section, or the create utility type) has no primary-key field, audit
\* timestamp, soft-delete marker or accessor field of a compound type, and the update
\* shape has exactly the fields of the create shape, all optional.
C15_CreateUpdateShapes ==
  epc = "done" =>
    /\ \A i \in DOMAIN esection.create : esection.create[i] \notin ProtectedFields(eiface)
    /\ esection.update.fields = esection.create
    /\ esection.update.allOptional

\* the type tags the generator knows
KnownTags ==
  {"String", "Text", "MediumText", "LongText", "Password", "Email", "TinyInt", "Int",
   "BigInt", "Float", "Boolean", "Date", "DateTime", "Timestamp", "Time", "Json",
   "Lookup", "Enum", "Select", "EnumRef", "Association", "File"}

IsRegistered(property) ==
  property.withCustomTypes /\ \E ct \in CustomTypes : ct.name = property.type

UnrecognizedTag(property) == property.type \notin KnownTags /\ ~IsRegistered(property)

\* C16 as stated: a property with an unrecognized type tag does not make generation
\* fail, its interface field has the type unknown, and it gets no validator.
C16_UnknownTagNeutral ==
  \A k \in DOMAIN eschema.properties :
    (epc # "ready" /\ UnrecognizedTag(eschema.properties[k])) =>
      /\ epc = "done"
      /\ \E j \in DOMAIN eiface.properties :
           /\ eiface.properties[j].name = eschema.properties[k].pname
           /\ eiface.properties[j].type = Unknown
      /\ \A j \in DOMAIN esection.schemas :
           esection.schemas[j].fieldName # toSnakeCase(eschema.properties[k].pname)

IsMorphTo(property) == property.type = "Association" /\ property.relation = "MorphTo"

TargetsOf(property) == IF Defined(property.targets) THEN property.targets[1] ELSE <<>>

\* the three fields of a morph-to property: <prop>Type, <prop>Id, <prop>, all optional
MorphTriple(fields, property) ==
  /\ Len(fields) = 3
  /\ \A j \in 1..3 : fields[j].optional
  /\ fields[1].name = property.pname \o <<"T", "y", "p", "e">>
  /\ fields[1].type = JoinWith(MapSeq(TargetsOf(property), Quoted), Bar)
  /\ fields[2].name = property.pname \o <<"I", "d">>
  /\ fields[2].type = <<"number">>
  /\ fields[3].name = property.pname
  /\ fields[3].type = JoinWith(TargetsOf(property), Bar) \o Bar \o <<"null">>

\* the entity has one property, so that the fields of the properties are its expansion
OnlyProperty == Len(eschema.properties) = 1

\* C17 as stated: a morph-to property expands to exactly the three fields <prop>Type,
\* <prop>Id and <prop>, all optional.
C17_MorphToThreeFields ==
  (epc # "ready" /\ OnlyProperty /\ IsMorphTo(eschema.properties[1])) =>
    /\ epc = "done"
    /\ MorphTriple(OwnFields(eiface), eschema.properties[1])

\* C17 amended: the same for a morph-to property that declares at least one target;
\* without targets the property is one field of type unknown.
C17_MorphToWithTargetsThreeFields ==
  (/\ epc # "ready" /\ OnlyProperty /\ IsMorphTo(eschema.properties[1])
   /\ Len(TargetsOf(eschema.properties[1])) > 0) =>
    /\ epc = "done"
    /\ MorphTriple(OwnFields(eiface), eschema.properties[1])

\* C17 witness: the interface of an entity whose only property is a nullable morph-to
\* association with two targets
C17_Witness ==
  /\ epc = "done" /\ OnlyProperty
  /\ IsMorphTo(eschema.properties[1])
  /\ Len(TargetsOf(eschema.properties[1])) = 2
  /\ Len(OwnFields(eiface)) = 3

\* the registered compound type of a property that declares an expand list
DeclaresExpansion(property) ==
  /\ property.withCustomTypes
  /\ \E ct \in CustomTypes :
       ct.name = property.type /\ ct.compound /\ Defined(ct.expand)

DeclaredEntries(property) ==
  (CHOOSE ct \in CustomTypes : ct.name = property.type).expand[1]

DeclaredAccessors(property) ==
  LET ct == CHOOSE c \in CustomTypes : c.name = property.type
  IN IF Defined(ct.accessors) THEN ct.accessors[1] ELSE <<>>

\* C18: a compound property whose type declares N expansion entries and A accessors
\* expands to exactly N + A fields, whatever nullability the property, its field
\* overrides or the plugin give.
C18_CompoundFieldCount ==
  (epc # "ready" /\ OnlyProperty /\ DeclaresExpansion(eschema.properties[1])) =>
    /\ epc = "done"
    /\ Len(OwnFields(eiface)) = Len(DeclaredEntries(eschema.properties[1]))
                                + Len(DeclaredAccessors(eschema.properties[1]))

\* C18 witness: the interface of an entity whose only property is a nullable compound
\* property of a type with two entries and one accessor, with a field override
C18_Witness ==
  /\ epc = "done" /\ OnlyProperty
  /\ DeclaresExpansion(eschema.properties[1])
  /\ eschema.properties[1].type = "JapaneseName"
  /\ eschema.properties[1].nullable
  /\ eschema.properties[1].fields # <<>>
  /\ Len(OwnFields(eiface)) = 3

\* the first defined value in the order: per-schema field override, plugin per-field
\* default, nullability of the parent property (false when it has none)
PriorityNullable(property, entry) ==
  LET overrides == {o \in Range(property.fields) :
                      o.suffix = entry.suffix /\ Defined(o.nullable)}
  IN IF overrides # {} THEN (CHOOSE o \in overrides : TRUE).nullable[1]
     ELSE IF Defined(entry.sqlNullable) THEN entry.sqlNullable[1]
     ELSE property.nullable

\* C19: each expanded field of a compound property is optional in the interface, and
\* its validator ends with the optional, nullable suffix, exactly when the first defined
\* value in the priority order is true.
C19_ExpandedNullability ==
  (epc = "done" /\ OnlyProperty /\ DeclaresExpansion(eschema.properties[1])) =>
    \A k \in DOMAIN DeclaredEntries(eschema.properties[1]) :
      LET expected == PriorityNullable(eschema.properties[1],
                                       DeclaredEntries(eschema.properties[1])[k])
      IN /\ OwnFields(eiface)[k].optional = expected
         /\ esection.kind = "zod" =>
              /\ Len(esection.schemas) = Len(DeclaredEntries(eschema.properties[1]))
              /\ HasSuffix(esection.schemas[k].schema, OptionalNullable) = expected
              /\ CountPiece(esection.schemas[k].schema, ".nullable()")
                   = (IF expected THEN 1 ELSE 0)

\* C19 witness: a required compound property whose override makes the first entry
\* nullable and whose plugin default makes the second entry nullable
C19_Witness ==
  /\ epc = "done" /\ OnlyProperty /\ esection.kind = "zod"
  /\ DeclaresExpansion(eschema.properties[1])
  /\ eschema.properties[1].type = "JapaneseName"
  /\ ~eschema.properties[1].nullable
  /\ eschema.properties[1].fields = <<FieldOverride(tLastname, Some(TRUE), None, None)>>
  /\ OwnFields(eiface)[1].optional /\ OwnFields(eiface)[2].optional

\* C19 witness of the overrides: a nullable compound property whose overrides make the
\* first entry nullable against the plugin default and the second entry required
\* against the parent property
C19_WitnessOverrides ==
  /\ epc = "done" /\ OnlyProperty /\ esection.kind = "zod"
  /\ DeclaresExpansion(eschema.properties[1])
  /\ eschema.properties[1].type = "Money"
  /\ eschema.properties[1].nullable
  /\ Len(eschema.properties[1].fields) = 2
  /\ OwnFields(eiface)[1].optional /\ ~OwnFields(eiface)[2].optional

KnownRelations ==
  {"OneToOne", "ManyToOne", "OneToMany", "ManyToMany", "MorphTo", "MorphOne",
   "MorphMany", "MorphToMany", "MorphedByMany"}

UnrecognizedKind(property) ==
  \/ property.type \notin KnownTags
  \/ property.type = "Association" /\ property.relation \notin KnownRelations

\* C20 as stated: for every property definition getPropertyType returns a type
\* expression, and it returns unknown for a kind it does not recognize.
C20_TypeResolutionTotal ==
  epc # "ready" =>
    \A k \in DOMAIN eschema.properties :
      /\ IsTypeExpression(getPropertyType(eschema.properties[k]))
      /\ UnrecognizedKind(eschema.properties[k]) =>
           getPropertyType(eschema.properties[k]) = Unknown

SingularRelations == {"OneToOne", "ManyToOne", "MorphOne"}

PluralRelations == {"OneToMany", "ManyToMany", "MorphMany", "MorphToMany", "MorphedByMany"}

\* the association properties of the entity that name what they point to: a target, or
\* for a morph-to relation at least one target
NamedAssociations ==
  {k \in DOMAIN eschema.properties :
     LET p == eschema.properties[k]
     IN /\ p.type = "Association"
        /\ \/ p.relation \in SingularRelations \cup PluralRelations /\ Defined(p.target)
           \/ IsMorphTo(p) /\ TargetsOf(p) # <<>>}

\* the type the claim gives to an association property
AssociationType(p) ==
  IF p.relation \in SingularRelations THEN p.target[1]
  ELSE IF p.relation \in PluralRelations THEN p.target[1] \o <<"[]">>
  ELSE JoinWith(TargetsOf(p), Bar)

\* C21: an association property resolves to the bare target name for OneToOne,
\* ManyToOne and MorphOne, to an array of the target for OneToMany, ManyToMany,
\* MorphMany, MorphToMany and MorphedByMany, and to the union of the declared target
\* names for MorphTo; the interface field of a singular or plural relation carries
\* that type.
C21_AssociationTypes ==
  epc = "done" =>
    \A k \in NamedAssociations :
      LET p == eschema.properties[k]
      IN /\ getPropertyType(p) = AssociationType(p)
         /\ ~IsMorphTo(p) =>
              \E j \in DOMAIN eiface.properties :
                /\ eiface.properties[j].name = p.pname
                /\ eiface.properties[j].type = AssociationType(p)

C21_Witness ==
  /\ epc = "done"
  /\ OnlyProperty
  /\ 1 \in NamedAssociations
  /\ eschema.properties[1].relation = "MorphToMany"
  /\ OwnFields(eiface)[1].type = tPost \o <<"[]">>

C21_WitnessMorphTo ==
  /\ epc = "done"
  /\ OnlyProperty
  /\ 1 \in NamedAssociations
  /\ IsMorphTo(eschema.properties[1])
  /\ getPropertyType(eschema.properties[1]) = tPost \o Bar \o tComment

\* the inline value list of an Enum property, or the options of a Select property
HasInlineValues(p) ==
  \/ p.type = "Enum" /\ p.enumKind = "list"
  \/ p.type = "Select" /\ Len(p.options) > 0

InlineValuesOf(p) == IF p.type = "Enum" THEN p.enumList ELSE p.options

\* C22 as stated: an Enum property with an inline value list, or a Select property
\* with options, resolves to the union of one quoted literal per entry, in declaration
\* order, each literal being the value of its entry, whether the entry is a bare
\* string or a labelled record; the interface field carries that type.
C22_InlineUnionOfValues ==
  epc # "ready" =>
    \A k \in DOMAIN eschema.properties :
      LET p == eschema.properties[k]
      IN HasInlineValues(p) =>
           /\ getPropertyType(p) = UnionOfLiterals(InlineValuesOf(p))
           /\ \E j \in DOMAIN eiface.properties :
                /\ eiface.properties[j].name = p.pname
                /\ eiface.properties[j].type = UnionOfLiterals(InlineValuesOf(p))

FieldNames(fields) == MapSeq(fields, LAMBDA f : f.name)

\* the field names of the entity in the order the claim fixes: primary key, the fields
\* of each declared property in declaration order, audit timestamps, soft-delete marker
FixedFieldOrder(schema) ==
  (IF schema.options.id # Some(FALSE) THEN <<tId>> ELSE <<>>)
  \o Flatten(MapSeq(schema.properties, LAMBDA q : FieldNames(propertyToTSProperties(q))))
  \o (IF schema.options.timestamps # Some(FALSE) THEN <<tCreatedAt, tUpdatedAt>> ELSE <<>>)
  \o (IF schema.options.softDelete = Some(TRUE) THEN <<tDeletedAt>> ELSE <<>>)

\* C23: the interface of an entity lists the primary key (if enabled), then the fields
\* of the declared properties in declaration order, then the timestamp fields (if
\* enabled), then the soft-delete marker (if enabled), whatever the kinds of the
\* properties are.
C23_FixedFieldOrder ==
  epc = "done" => FieldNames(eiface.properties) = FixedFieldOrder(eschema)

C23_Witness ==
  /\ epc = "done"
  /\ Len(eschema.properties) = 2
  /\ HasExpansion(eschema.properties[2])
  /\ eschema.properties[1].type = "Timestamp"
  /\ eschema.options.softDelete = Some(TRUE)
  /\ Len(eiface.properties) = 8
  /\ eiface.properties[1].name = tId
  /\ eiface.properties[2].name = eschema.properties[1].pname
  /\ eiface.properties[8].name = tDeletedAt

\* the enum phase of the run is over
EnumsPlanned == pc \in {"planBase", "planModels", "planSupport", "returned"}

\* the enums of the run: schema enums, inline full enums, plugin enums
PlannedEnums == AllEnums(schemas) \o generatePluginEnums(pluginEnums)

\* every enum of the run has its file in the list, with its members as rendered
EnumFilesWritten ==
  \A i \in DOMAIN PlannedEnums :
    \E j \in DOMAIN files :
      /\ files[j].filePath = PlannedEnums[i].name \o tDotTs
      /\ files[j].content.body = formatEnum(PlannedEnums[i])

LegalIdentifier(n) ==
  /\ n # <<>>
  /\ IsLower(n[1]) \/ IsUpper(n[1]) \/ n[1] = "_"
  /\ \A i \in 2..Len(n) : IsAlnum(n[i])

\* C24 as stated: the member name generated for any raw enum value is a legal
\* identifier (a letter or underscore, then letters and digits only), and the name of
\* a value that starts with a digit starts with an underscore.
C24_MemberNamesLegal ==
  EnumsPlanned =>
    /\ EnumFilesWritten
    /\ \A i \in DOMAIN PlannedEnums :
         \A k \in DOMAIN PlannedEnums[i].values :
           LET m == PlannedEnums[i].values[k]
           IN /\ LegalIdentifier(m.name)
              /\ (m.value # <<>> /\ IsDigit(Head(m.value))) => Head(m.name) = "_"

DistinctRawValues(enumDef) ==
  \A i, j \in DOMAIN enumDef.values :
    i # j => enumDef.values[i].value # enumDef.values[j].value

DistinctMemberNames(enumDef) ==
  \A i, j \in DOMAIN enumDef.values :
    i # j => enumDef.values[i].name # enumDef.values[j].name

\* C28 as stated: a generated enum (schema, plugin or inline) whose raw values are
\* pairwise distinct declares pairwise distinct member names.
C28_MemberNamesDistinct ==
  EnumsPlanned =>
    /\ EnumFilesWritten
    /\ \A i \in DOMAIN PlannedEnums :
         DistinctRawValues(PlannedEnums[i]) => DistinctMemberNames(PlannedEnums[i])

\* the properties of the object schemas of the run that carry an inline value list
InlineProperties ==
  {sp \in {<<i, k>> : i \in DOMAIN schemas, k \in 1..2} :
     /\ schemas[sp[1]].kind = "object"
     /\ sp[2] \in DOMAIN schemas[sp[1]].props
     /\ schemas[sp[1]].props[sp[2]].type \in {"Enum", "Select"}
     /\ Len(schemas[sp[1]].props[sp[2]].enum) > 0}

\* the artifacts extracted in this run under the given name
ArtifactsNamed(name) ==
  Indices(extractInlineEnums(schemas), LAMBDA it : it.name = name)

CarriesLabel(p) == \E i \in DOMAIN p.enum : p.enum[i].labelled

\* the file of an artifact: the members of a full enum, or the union of a type alias
ArtifactFileWritten(it) ==
  \E j \in DOMAIN files :
    /\ files[j].filePath = it.name \o tDotTs
    /\ files[j].content.body =
         IF it.tag = "enum" THEN formatEnum(TSEnum(it.name, it.values))
         ELSE formatTypeAlias(it)

\* C25 as stated: for every inline Enum or Select property with a non-empty value list
\* exactly one artifact named <SchemaName><PascalCase(propertyName)> is extracted, a
\* full enum if a listed value carries a label and a literal-union type alias
\* otherwise.
C25_OneArtifactPerInlineProperty ==
  EnumsPlanned =>
    \A sp \in InlineProperties :
      LET s == schemas[sp[1]]
          p == s.props[sp[2]]
          named == ArtifactsNamed(s.name \o toPascalCase(p.pname))
      IN /\ Cardinality(named) = 1
         /\ \A a \in named :
              LET it == extractInlineEnums(schemas)[a]
              IN /\ it.tag = IF CarriesLabel(p) THEN "enum" ELSE "typeAlias"
                 /\ ArtifactFileWritten(it)

IsPluginSupplied(e) == \E i \in DOMAIN pluginEnums : pluginEnums[i].name = e

\* the list has a file of the given path, category and body
HasFile(path, category, body) ==
  \E j \in DOMAIN files :
    /\ files[j].filePath = path
    /\ files[j].category = category
    /\ files[j].content.body = body

\* every plugin enum is a file of category plugin-enum and nothing else is; every schema
\* enum with values, inline enum and inline type alias is a file of category enum
EnumCategories ==
  /\ \A i \in DOMAIN pluginEnums :
       HasFile(pluginEnums[i].name \o tDotTs, "plugin-enum",
               formatEnum(pluginEnumToTSEnum(pluginEnums[i])))
  /\ Cardinality(Indices(files, LAMBDA f : f.category = "plugin-enum")) = Len(pluginEnums)
  /\ \A i \in DOMAIN AllEnums(schemas) :
       HasFile(AllEnums(schemas)[i].name \o tDotTs, "enum", formatEnum(AllEnums(schemas)[i]))
  /\ \A i \in DOMAIN inlineTypeAliases(schemas) :
       HasFile(inlineTypeAliases(schemas)[i].name \o tDotTs, "enum",
               formatTypeAlias(inlineTypeAliases(schemas)[i]))

\* the visible entities of the run and the enums their EnumRef properties refer to
EnumReferences ==
  {se \in {<<i, e>> : i \in DOMAIN schemas, e \in {tStatus, tUserStatus, tUser}} :
     /\ IsVisibleObject(schemas[se[1]])
     /\ se[2] \in Range(enumDependencies(schemas[se[1]]))}

ImportsEnumFrom(i, prefix, e) ==
  \E j \in BaseFilesOf(files, schemas[i].name) :
    (prefix \o tSlash \o e \o getImportExt(opts)) \in Range(files[j].content.imports)

\* C26 as stated: plugin enums are files of category plugin-enum, schema and inline
\* enums are files of category enum, and a base file imports a referenced enum from
\* the plugin-enum import prefix exactly when the enum is plugin-supplied.
C26_PluginEnumNamespace ==
  (CallOver /\ result.kind = "ok") =>
    /\ EnumCategories
    /\ \A se \in EnumReferences :
         ImportsEnumFrom(se[1], pluginEnumPrefixOfBase(opts), se[2])
           <=> IsPluginSupplied(se[2])

\* C26, amended: the categories are as stated, and a base file imports a referenced
\* enum from the plugin-enum import prefix if the enum is plugin-supplied and from the
\* schema-enum import prefix otherwise; the two imports differ exactly when the options
\* give the two prefixes different values.
C26_PluginEnumNamespaceByPrefix ==
  (CallOver /\ result.kind = "ok") =>
    /\ EnumCategories
    /\ \A se \in EnumReferences :
         /\ IsPluginSupplied(se[2]) =>
              ImportsEnumFrom(se[1], pluginEnumPrefixOfBase(opts), se[2])
         /\ ~IsPluginSupplied(se[2]) =>
              ImportsEnumFrom(se[1], schemaEnumPrefix(opts), se[2])
         /\ pluginEnumPrefixOfBase(opts) # schemaEnumPrefix(opts) =>
              (ImportsEnumFrom(se[1], pluginEnumPrefixOfBase(opts), se[2])
                 <=> IsPluginSupplied(se[2]))

C26_Witness ==
  /\ CallOver /\ result.kind = "ok"
  /\ pluginEnumPrefixOfBase(opts) # schemaEnumPrefix(opts)
  /\ \E se \in EnumReferences :
       /\ IsPluginSupplied(se[2])
       /\ ImportsEnumFrom(se[1], pluginEnumPrefixOfBase(opts), se[2])
       /\ ~ImportsEnumFrom(se[1], schemaEnumPrefix(opts), se[2])
  /\ \E j \in DOMAIN files : files[j].category = "plugin-enum"
  /\ \E j \in DOMAIN files : files[j].category = "enum"

\* C27 as stated: every field name of the validator map of an entity, and so of its
\* create and update shapes, is the name of a field of the interface of the entity.
C27_ValidatorFieldsAreInterfaceFields ==
  (epc = "done" /\ esection.kind = "zod") =>
    LET names == Range(FieldNames(eiface.properties))
    IN /\ \A j \in DOMAIN esection.schemas : esection.schemas[j].fieldName \in names
       /\ \A j \in DOMAIN esection.create : esection.create[j] \in names
       /\ \A j \in DOMAIN esection.update.fields : esection.update.fields[j] \in names

\* the module name of a file: its path without the base/ directory and the .ts suffix
Stem(f) == SubSeq(StripBase(f.filePath), 1, Len(StripBase(f.filePath)) - Len(tDotTs))

\* the prefix under which index.ts refers to a file of the list
IndexPrefixOf(f) ==
  IF f.category = "enum" THEN indexEnumPrefix(opts)
  ELSE IF f.category = "plugin-enum" THEN indexPluginEnumPrefix(opts)
  ELSE IF f.filePath \in {tCommonTs, tI18nTs}
       THEN IF StartsWithAt(opts.baseImportPrefix) THEN opts.baseImportPrefix ELSE <<".">>
  ELSE IF f.category = "base" THEN basePrefixOf(opts)
  ELSE <<".">>

\* every enum a base file imports has its file in the list, in the category the import
\* prefix stands for
BaseEnumImportsResolve ==
  \A se \in EnumReferences :
    \E j \in DOMAIN files :
      /\ files[j].filePath = se[2] \o tDotTs
      /\ files[j].category = IF IsPluginSupplied(se[2]) THEN "plugin-enum" ELSE "enum"

\* every entity a base file imports has its base file in the list
BaseEntityImportsResolve ==
  \A i \in DOMAIN schemas :
    IsVisibleObject(schemas[i]) =>
      \A d \in Range(dependencies(schemas[i], schemas)) : BaseFilesOf(files, d) # {}

\* every module index.ts re-exports from is a file of the list
IndexReexportsResolve ==
  \A x \in DOMAIN files :
    files[x].filePath = tIndexTs =>
      \A k \in DOMAIN files[x].content.imports :
        \E j \in DOMAIN files :
          files[x].content.imports[k] =
            IndexPrefixOf(files[j]) \o tSlash \o Stem(files[j]) \o getImportExt(opts)

\* C29 as stated: in a successful run every entity or enum import of a base file and
\* every re-export of index.ts refers to a file of the output list of the run.
C29_ReferencesResolve ==
  (CallOver /\ result.kind = "ok") =>
    /\ BaseEnumImportsResolve
    /\ BaseEntityImportsResolve
    /\ IndexReexportsResolve

\* C30 as stated: the validator of a numeric property (Int, TinyInt, BigInt, Float)
\* starts from the numeric base validator whatever its rules bag holds; rules never
\* make it a string validator.
C30_NumericStaysNumeric ==
  (zpc = "done" /\ zprop.type \in NumericKinds) =>
    /\ zout # <<>>
    /\ Head(zout[1].schema) = "z.number()"
    /\ CountPiece(zout[1].schema, "z.string()") = 0

====
